---- MODULE Spec2Model ----
(***************************************************************************)
(* A model of the hierarchical revenue forecast core:                      *)
(*   mlrf_data.hierarchy   build_hierarchy_spec, create_summing_matrix,    *)
(*                         validate_summing_matrix, hierarchy_pipeline     *)
(*   mlrf_ml.reconciliation aggregate_bottom_forecasts                     *)
(*   mlrf_ml.validation    walk_forward_split, evaluate_model_cv           *)
(*   mlrf_data.features    create_lag_features, create_rolling_features    *)
(* Dates are day numbers, matrix entries and target values are integers    *)
(* (the 0/1 entries of S are exact in float32), and a mean is kept as the  *)
(* pair (sum, count).  Indices are 0-based as in the source.               *)
(***************************************************************************)
EXTENDS Integers, Sequences, FiniteSets, TLC

VARIABLES
    hpc,              \* hierarchy_pipeline: position
    hdf,              \* the feature matrix: rows [store_nbr, family]
    hierarchy_spec,   \* result of build_hierarchy_spec
    S,                \* the summing matrix
    validation,       \* outcome of validate_summing_matrix
    bottom_forecasts, \* argument of aggregate_bottom_forecasts
    aggregated,       \* its result, S @ bottom_forecasts
    forecasts,        \* a forecast frame: unique_id, ds and value columns
    consistency,      \* verify_hierarchy_consistency: its arguments and result
    rebuilt,          \* a second run of build_hierarchy_spec: argument and result
    given,            \* a matrix given to validate_summing_matrix by a caller
    wpc,              \* walk_forward_split / evaluate_model_cv: position
    wdf,              \* the panel: one date per row
    params,           \* train_days, valid_days, gap_days, n_splits, step_days
    fold_i,           \* the loop variable i of walk_forward_split
    splits,           \* the list being built, then returned
    last,             \* what the latest loop iteration computed and did
    skipped,          \* iterations that took the "not enough training data" exit
    dropped,          \* iterations whose train or validation set was empty
    kept_folds,       \* iterations that appended a fold: index and boundaries
    model_calls,      \* evaluate_model_cv: the (train_df, valid_df) given to model_fn
    cv_input,         \* evaluate_model_cv: the target column and the model
    cv_result,        \* the dict returned by evaluate_model_cv
    fpc,              \* feature builder: the operations that have run
    fdf,              \* the table given to the feature builder
    lag_cols,         \* columns added by create_lag_features
    rolling_cols,     \* columns added by create_rolling_features
    feature_matrix,   \* build_feature_matrix: its arguments and its result
    spc,              \* method selection: position
    evaluation_results, \* the frame returned by evaluate_reconciliation
    selection,        \* select_best_reconciliation_method: arguments and result
    mpc,              \* metrics: the metric functions that have been called
    metric_y_true,    \* the vector of actual values given to a metric
    metric_y_pred,    \* the vector of predicted values given to a metric
    score,            \* what rmsle and rmse returned
    xpc,              \* ShapService.explain: each caller's position
    features_len,     \* len(features) of each caller's current call
    loaded,           \* requests_served as read by each caller's increment
    lock,             \* self._lock: the caller holding it, or 0
    requests_served,  \* self.requests_served
    model,            \* self.model
    explainer,        \* self.explainer
    started,          \* explain calls entered so far
    outcomes,         \* explain calls ended so far, by the way they ended
    health,           \* what the latest health() returned, if any
    observed,         \* the calls started and the calls running at that time
    epc,              \* create_waterfall_data: position
    shap_values,      \* the SHAP values of one sample, in hundredths
    base_value,       \* the expected value, in hundredths
    max_display,      \* the number of features to list
    waterfall,        \* what create_waterfall_data returned
    artifacts         \* hierarchy_pipeline: the content of each file of models_dir

hvars == <<hpc, hdf, hierarchy_spec, S, validation, bottom_forecasts, aggregated,
          forecasts, consistency, rebuilt, given>>
wvars == <<wpc, wdf, params, fold_i, splits, last, skipped, dropped, kept_folds,
          model_calls, cv_input, cv_result>>
fvars == <<fpc, fdf, lag_cols, rolling_cols, feature_matrix>>
svars == <<spc, evaluation_results, selection>>
mvars == <<mpc, metric_y_true, metric_y_pred, score>>
xvars == <<xpc, features_len, loaded, lock, requests_served, model, explainer,
          started, outcomes, health, observed>>
evars == <<epc, shap_values, base_value, max_display, waterfall>>
pvars == <<artifacts>>
vars == <<hvars, wvars, fvars, svars, mvars, xvars, evars, pvars>>

None == "None"

-----------------------------------------------------------------------------
(* Bounds of the model *)

MaxStoreNbr == 2      \* store numbers 1..MaxStoreNbr
MaxHRows == 2         \* rows of the table given to build_hierarchy_spec
MaxBottom == 3        \* n_bottom of a caller's spec, and forecast lengths, 1..MaxBottom

\* Family names, as sequences of characters; one holds the separator.
FamilyNames == { <<"B">>, <<"A", "_", "B">> }

\* Values of a bottom-level forecast.
ForecastVals == {0, 1}

\* Values of a base forecast of the Total node, and tolerances.
BaseTotalVals == {0, 1}
TolVals == {0, 1}

MaxDay == 5           \* dates are the day numbers 0..MaxDay
MaxWRows == 3         \* rows of the panel given to walk_forward_split
MaxTrainDays == 2     \* train_days in 1..MaxTrainDays
MaxDays == 2          \* valid_days, gap_days, step_days in 0..MaxDays
MaxSplits == 2        \* n_splits in 0..MaxSplits

\* Values the external model predicts: model_fn predicts one of them for
\* every validation row.
PredVals == {-1, 0, 1}

MaxFRows == 4         \* rows of the table given to the feature builder
MaxLag == 2           \* lags in 1..MaxLag
MaxWindow == 2        \* rolling windows in 1..MaxWindow
MaxHorizon == 2       \* forecast_horizon in 1..MaxHorizon

MaxMethods == 3       \* reconciliation methods evaluated, 1..MaxMethods

MaxSamples == 2       \* length of the vectors given to a metric, 0..MaxSamples

\* Entries of the vectors given to a metric.
SampleVals == {-2, -1, 0, 1, 2}

MaxExplainCalls == 3  \* explain calls made on one service, all callers together

\* The concurrent callers of one service.
Callers == {1, 2}

\* len(features) of an explain call.
FeatureCounts == {10, 27}

MaxShapValues == 3    \* SHAP values of a sample, 0..MaxShapValues
MaxDisplay == 3       \* max_display in 0..MaxDisplay

\* SHAP values and base values, in hundredths.
ShapVals == {-2, -1, 0, 1, 2}
BaseVals == {0, 100}

\* The metrics of a row of the evaluation results: the two metrics rank the
\* rows in opposite orders.
Scores == { [ rmse |-> 1, mae |-> 2 ], [ rmse |-> 2, mae |-> 1 ] }

-----------------------------------------------------------------------------
(* Helpers: sums, strings, sorting *)

RECURSIVE SumTo(_, _)
\* sum of f[0] .. f[n-1]
SumTo(f, n) == IF n = 0 THEN 0 ELSE SumTo(f, n - 1) + f[n - 1]

RECURSIVE SumSeq(_)
SumSeq(s) == IF s = <<>> THEN 0 ELSE Head(s) + SumSeq(Tail(s))

\* Code points of the characters in use.
Ord(c) ==
    CASE c = "0" -> 48 [] c = "1" -> 49 [] c = "2" -> 50 [] c = "3" -> 51
      [] c = "4" -> 52 [] c = "5" -> 53 [] c = "6" -> 54 [] c = "7" -> 55
      [] c = "8" -> 56 [] c = "9" -> 57
      [] c = "A" -> 65 [] c = "B" -> 66 [] c = "_" -> 95

Digits == <<"0", "1", "2", "3", "4", "5", "6", "7", "8", "9">>

RECURSIVE Str(_)
\* str(n) of a natural number, as f"{store}" formats it
Str(n) == IF n < 10 THEN <<Digits[n + 1]>>
          ELSE Str(n \div 10) \o <<Digits[(n % 10) + 1]>>

RECURSIVE StrLess(_, _)
\* Python's < on str: lexicographic by code point
StrLess(a, b) ==
    IF b = <<>> THEN FALSE
    ELSE IF a = <<>> THEN TRUE
    ELSE IF Ord(Head(a)) # Ord(Head(b)) THEN Ord(Head(a)) < Ord(Head(b))
    ELSE StrLess(Tail(a), Tail(b))

RECURSIVE SortedInts(_)
\* sorted(set) of integers
SortedInts(set) ==
    IF set = {} THEN <<>>
    ELSE LET m == CHOOSE x \in set : \A y \in set \ {x} : x < y
         IN  <<m>> \o SortedInts(set \ {m})

RECURSIVE SortedStrs(_)
\* sorted(set) of strings
SortedStrs(set) ==
    IF set = {} THEN <<>>
    ELSE LET m == CHOOSE x \in set : \A y \in set \ {x} : StrLess(x, y)
         IN  <<m>> \o SortedStrs(set \ {m})

RECURSIVE Split(_, _)
\* s.split(sep) for a one-character separator
Split(s, sep) ==
    IF \A k \in 1..Len(s) : s[k] # sep THEN <<s>>
    ELSE LET p == CHOOSE k \in 1..Len(s) :
                      s[k] = sep /\ \A j \in 1..(k - 1) : s[j] # sep
         IN  <<SubSeq(s, 1, p - 1)>> \o Split(SubSeq(s, p + 1, Len(s)), sep)

RECURSIVE Join(_, _)
\* sep.join(parts)
Join(parts, sep) ==
    IF parts = <<>> THEN <<>>
    ELSE IF Len(parts) = 1 THEN parts[1]
    ELSE parts[1] \o <<sep>> \o Join(Tail(parts), sep)

Abs(x) == IF x < 0 THEN -x ELSE x

RECURSIVE Distinct(_)
\* The sequence without its repeated elements, first occurrences kept.
Distinct(s) ==
    IF s = <<>> THEN <<>>
    ELSE LET front == Distinct(SubSeq(s, 1, Len(s) - 1))
         IN  IF \E k \in 1..Len(front) : front[k] = s[Len(s)]
             THEN front ELSE Append(front, s[Len(s)])

-----------------------------------------------------------------------------
(* mlrf_data.hierarchy *)

ColumnValues(df, col) == { df[k][col] : k \in 1..Len(df) }

\* f"{store}_{family}"
UniqueId(store, family) == Str(store) \o <<"_">> \o family

\* bottom_ids: stores in the outer loop, families in the inner loop
BottomIdsMutant(stores, families) ==
    [ k \in 1..(Len(stores) * Len(families)) |->
        UniqueId(stores[((k - 1) % Len(stores)) + 1],
                 families[((k - 1) \div Len(stores)) + 1]) ]
BottomIds(stores, families) ==
    [ k \in 1..(Len(stores) * Len(families)) |->
        UniqueId(stores[((k - 1) \div Len(families)) + 1],
                 families[((k - 1) % Len(families)) + 1]) ]

StoreTag(uid) == <<"S", "t", "o", "r", "e", "_">> \o Split(uid, "_")[1]
FamilyTagMutant(uid) == <<"F", "a", "m", "i", "l", "y", "_">> \o Split(uid, "_")[2]
FamilyTag(uid) ==
    <<"F", "a", "m", "i", "l", "y", "_">> \o Join(Tail(Split(uid, "_")), "_")

\* stores = sorted(df.select("store_nbr").unique()["store_nbr"].to_list()):
\* unique() gives the distinct values in no particular order, sorted() orders
\* them
SortedStoresMutant(df) == Distinct([ k \in 1..Len(df) |-> df[k].store_nbr ])
SortedStores(df) == SortedInts(ColumnValues(df, "store_nbr"))

BuildHierarchySpec(df) ==
    LET stores == SortedStores(df)
        families == SortedStrs(ColumnValues(df, "family"))
        bottom_ids == BottomIds(stores, families)
    IN  [ bottom_ids |-> bottom_ids,
          tags |-> [ Total |-> [k \in 1..Len(bottom_ids) |-> <<"T", "o", "t", "a", "l">>],
                     Store |-> [k \in 1..Len(bottom_ids) |-> StoreTag(bottom_ids[k])],
                     Family |-> [k \in 1..Len(bottom_ids) |-> FamilyTag(bottom_ids[k])] ],
          n_stores |-> Len(stores),
          n_families |-> Len(families),
          n_bottom |-> Len(bottom_ids) ]

\* np.zeros((n_total, n_bottom)); S[0, :] = 1.0
TotalRow(n_total, n_bottom) ==
    [ r \in 0..(n_total - 1) |-> [ c \in 0..(n_bottom - 1) |-> IF r = 0 THEN 1 ELSE 0 ] ]

\* the column slice start:end written by the row of store store_idx
StoreSliceMutant(store_idx, n_families) ==
    (store_idx * n_families)..(store_idx * n_families + n_families)
StoreSlice(store_idx, n_families) ==
    (store_idx * n_families)..(store_idx * n_families + n_families - 1)

\* for store_idx in range(n_stores): S[1 + store_idx, start:end] = 1.0
StoreRowsMutant(M, n_stores, n_families) ==
    [ r \in DOMAIN M |-> [ c \in DOMAIN M[r] |->
        IF \E store_idx \in 0..(n_stores - 1) :
               r = store_idx /\ c \in StoreSlice(store_idx, n_families)
        THEN 1 ELSE M[r][c] ] ]
StoreRows(M, n_stores, n_families) ==
    [ r \in DOMAIN M |-> [ c \in DOMAIN M[r] |->
        IF \E store_idx \in 0..(n_stores - 1) :
               r = 1 + store_idx /\ c \in StoreSlice(store_idx, n_families)
        THEN 1 ELSE M[r][c] ] ]

\* the column written for (family_idx, store_idx)
FamilyColumnMutant(family_idx, store_idx, n_families) ==
    family_idx * n_families + store_idx
FamilyColumn(family_idx, store_idx, n_families) ==
    store_idx * n_families + family_idx

\* for family_idx ..: for store_idx ..: S[1 + n_stores + family_idx, col] = 1.0
FamilyRows(M, n_stores, n_families) ==
    [ r \in DOMAIN M |-> [ c \in DOMAIN M[r] |->
        IF \E family_idx \in 0..(n_families - 1), store_idx \in 0..(n_stores - 1) :
               r = 1 + n_stores + family_idx
               /\ c = FamilyColumn(family_idx, store_idx, n_families)
        THEN 1 ELSE M[r][c] ] ]

\* np.eye(n_bottom)
Eye(n) == [ r \in 0..(n - 1) |-> [ c \in 0..(n - 1) |-> IF r = c THEN 1 ELSE 0 ] ]

\* S[1 + n_stores + n_families :, :] = np.eye(n_bottom)
BottomRows(M, n_stores, n_families, n_bottom) ==
    [ r \in DOMAIN M |-> [ c \in DOMAIN M[r] |->
        IF r >= 1 + n_stores + n_families
        THEN Eye(n_bottom)[r - (1 + n_stores + n_families)][c]
        ELSE M[r][c] ] ]

CreateSummingMatrix(spec) ==
    LET n_bottom == spec.n_bottom
        n_stores == spec.n_stores
        n_families == spec.n_families
        n_total == 1 + n_stores + n_families + n_bottom
    IN  BottomRows(
            FamilyRows(
                StoreRows(TotalRow(n_total, n_bottom), n_stores, n_families),
                n_stores, n_families),
            n_stores, n_families, n_bottom)

\* The validator reads matrix entries as floating-point numbers.  An entry is
\* held as a whole number of 1e-8: Unit is 1.0.
Unit == 100000000

\* The matrix with every whole-number entry as such a number.
AsFloats(M) == [ r \in DOMAIN M |-> [ c \in DOMAIN M[r] |-> M[r][c] * Unit ] ]

\* np.allclose(a, b) on one entry: abs(a - b) <= atol + rtol * abs(b), with
\* numpy's defaults atol = 1e-8 and rtol = 1e-5
Atol == 1
RtolInverse == 100000
AllCloseMutant(a, b) == Abs(a - b) <= Unit
AllClose(a, b) == Abs(a - b) <= Atol + (Abs(b) \div RtolInverse)

\* S[r, :].sum()
RowSum(M, r, n_bottom) == SumTo(M[r], n_bottom)

\* The four assertions, in the order of the source; the first that fails raises.
ValidateSummingMatrix(M, spec) ==
    LET n_stores == spec.n_stores
        n_families == spec.n_families
        n_bottom == spec.n_bottom
        bottom_start == 1 + n_stores + n_families
    IN  IF RowSum(M, 0, n_bottom) # n_bottom * Unit
        THEN "AssertionError: Total row"
        ELSE IF \E i \in 0..(n_stores - 1) : RowSum(M, 1 + i, n_bottom) # n_families * Unit
        THEN "AssertionError: Store row"
        ELSE IF \E j \in 0..(n_families - 1) :
                    RowSum(M, 1 + n_stores + j, n_bottom) # n_stores * Unit
        THEN "AssertionError: Family row"
        ELSE IF \E r \in 0..(n_bottom - 1), c \in 0..(n_bottom - 1) :
                    ~ AllClose(M[bottom_start + r][c], Eye(n_bottom)[r][c] * Unit)
        THEN "AssertionError: Bottom rows don't form identity"
        ELSE "True"

\* S @ bottom_forecasts for a 1-d vector
MatVec(M, b) ==
    [ r \in DOMAIN M |-> SumTo([ c \in DOMAIN b |-> M[r][c] * b[c] ],
                               Cardinality(DOMAIN b)) ]

\* S @ row is defined when the length of row is the number of columns of S;
\* numpy raises ValueError otherwise.
CoreDimensionsAgree(M, b) == Cardinality(DOMAIN b) = Cardinality(DOMAIN M[0])

\* An array is [ndim, data]: a vector, or (ndim = 2) a sequence of vectors,
\* one per period.
Array1d(b) == [ ndim |-> 1, data |-> b ]
Array2d(rows) == [ ndim |-> 2, data |-> rows ]

AggregateBottomForecasts(bf, M) ==
    IF bf.ndim = 1
    THEN Array1d(MatVec(M, bf.data))
    ELSE Array2d([ p \in DOMAIN bf.data |-> MatVec(M, bf.data[p]) ])

HRows == [ store_nbr : 1..MaxStoreNbr, family : FamilyNames ]

HTables == UNION { [ 1..n -> HRows ] : n \in 1..MaxHRows }

HIdle ==
    /\ hpc = "idle" /\ hdf = <<>> /\ hierarchy_spec = None /\ S = None
    /\ validation = None /\ bottom_forecasts = None /\ aggregated = None
    /\ forecasts = None /\ consistency = None /\ rebuilt = None /\ given = None

HInit ==
    /\ hpc = "load"
    /\ hdf \in HTables
    /\ hierarchy_spec = None /\ S = None /\ validation = None
    /\ bottom_forecasts = None /\ aggregated = None
    /\ forecasts = None /\ consistency = None /\ rebuilt = None /\ given = None

\* hierarchy_pipeline: hierarchy_spec = build_hierarchy_spec(df)
HBuildSpec ==
    /\ hpc = "load"
    /\ hierarchy_spec' = BuildHierarchySpec(hdf)
    /\ hpc' = "spec"
    /\ UNCHANGED <<hdf, S, validation, bottom_forecasts, aggregated, forecasts, consistency,
                   rebuilt, given, wvars, fvars, svars, mvars, xvars, evars, pvars>>

\* The rows of df in the order perm.
Permuted(df, perm) == [ k \in 1..Len(df) |-> df[perm[k]] ]

RowOrders(n) ==
    { perm \in [ 1..n -> 1..n ] : \A a, b \in 1..n : a # b => perm[a] # perm[b] }

\* build_hierarchy_spec run again, on the same rows in any order
HRebuildSpec ==
    /\ hpc = "spec"
    /\ \E perm \in RowOrders(Len(hdf)) :
          rebuilt' = [ df |-> Permuted(hdf, perm),
                       hierarchy_spec |-> BuildHierarchySpec(Permuted(hdf, perm)) ]
    /\ hpc' = "rebuilt"
    /\ UNCHANGED <<hdf, hierarchy_spec, S, validation, bottom_forecasts, aggregated,
                   forecasts, consistency, given, wvars, fvars, svars, mvars, xvars,
                   evars, pvars>>

\* S[1 + n_stores + family_idx, col] = 1.0 raises IndexError when col is not
\* a column of S; the slice assignment of a store row is cut to the columns
\* that exist and raises nothing.
IndexOutOfBounds(spec) ==
    \E family_idx \in 0..(spec.n_families - 1), store_idx \in 0..(spec.n_stores - 1) :
        FamilyColumn(family_idx, store_idx, spec.n_families) >= spec.n_bottom

\* hierarchy_pipeline: S = create_summing_matrix(hierarchy_spec)
HCreateMatrix ==
    /\ hpc = "spec"
    /\ IF IndexOutOfBounds(hierarchy_spec)
       THEN hpc' = "IndexError" /\ S' = S
       ELSE hpc' = "matrix" /\ S' = CreateSummingMatrix(hierarchy_spec)
    /\ UNCHANGED <<hdf, hierarchy_spec, validation, bottom_forecasts, aggregated, forecasts,
                   consistency, rebuilt, given, wvars, fvars, svars, mvars, xvars,
                   evars, pvars>>

\* hierarchy_pipeline: validate_summing_matrix(S, hierarchy_spec)
HValidate ==
    /\ hpc = "matrix"
    /\ validation' = ValidateSummingMatrix(AsFloats(S), hierarchy_spec)
    /\ hpc' = IF validation' = "True" THEN "validated" ELSE "raised"
    /\ UNCHANGED <<hdf, hierarchy_spec, S, bottom_forecasts, aggregated, forecasts,
                   consistency, rebuilt, given, wvars, fvars, svars, mvars, xvars,
                   evars, pvars>>

\* The files of models_dir, none of them written: a file is <<>> until it is
\* written and <<content>> afterwards.
PIdle ==
    artifacts = [ summing_matrix |-> <<>>, hierarchy_spec |-> <<>>,
                  tags_total |-> <<>>, tags_store |-> <<>>, tags_family |-> <<>> ]

\* The position of hierarchy_pipeline at which the artifacts are saved: after
\* validate_summing_matrix has returned.
SavePointMutant == "matrix"
SavePoint == "validated"

\* hierarchy_pipeline: np.save(models_dir / "summing_matrix.npy", S)
HSaveMatrix ==
    /\ hpc = SavePoint
    /\ artifacts' = [ artifacts EXCEPT !.summing_matrix = <<S>> ]
    /\ hpc' = "saved_matrix"
    /\ UNCHANGED <<hdf, hierarchy_spec, S, validation, bottom_forecasts, aggregated,
                   forecasts, consistency, rebuilt, given, wvars, fvars, svars, mvars,
                   xvars, evars>>

\* hierarchy_pipeline: json.dump(spec_for_json, f, indent=2)
HSaveSpec ==
    /\ hpc = "saved_matrix"
    /\ artifacts' = [ artifacts EXCEPT !.hierarchy_spec =
                         << [ bottom_ids |-> hierarchy_spec.bottom_ids,
                              n_stores |-> hierarchy_spec.n_stores,
                              n_families |-> hierarchy_spec.n_families,
                              n_bottom |-> hierarchy_spec.n_bottom ] >> ]
    /\ hpc' = "saved_spec"
    /\ UNCHANGED <<hdf, hierarchy_spec, S, validation, bottom_forecasts, aggregated,
                   forecasts, consistency, rebuilt, given, wvars, fvars, svars, mvars,
                   xvars, evars>>

\* hierarchy_pipeline: for level_name, tags_array in hierarchy_spec["tags"].items():
\* np.save(models_dir / f"tags_{level_name.lower()}.npy", tags_array), then
\* return hierarchy_spec
HSaveTags ==
    /\ hpc \in {"saved_spec", "saved_tags_total", "saved_tags_store"}
    /\ \/ /\ hpc = "saved_spec"
          /\ artifacts' = [ artifacts EXCEPT !.tags_total = <<hierarchy_spec.tags.Total>> ]
          /\ hpc' = "saved_tags_total"
       \/ /\ hpc = "saved_tags_total"
          /\ artifacts' = [ artifacts EXCEPT !.tags_store = <<hierarchy_spec.tags.Store>> ]
          /\ hpc' = "saved_tags_store"
       \/ /\ hpc = "saved_tags_store"
          /\ artifacts' = [ artifacts EXCEPT !.tags_family = <<hierarchy_spec.tags.Family>> ]
          /\ hpc' = "returned"
    /\ UNCHANGED <<hdf, hierarchy_spec, S, validation, bottom_forecasts, aggregated,
                   forecasts, consistency, rebuilt, given, wvars, fvars, svars, mvars,
                   xvars, evars>>

\* Entries a caller's matrix may hold in place of a right one: 0, 1e-8, 2e-8,
\* 1, 1.000005, 1.00002 and 2.
EntryVals == { 0, Atol, 2 * Atol, Unit, Unit + 500, Unit + 2000, 2 * Unit }

\* The matrices given to the validator: the matrix of the hierarchy, or that
\* matrix with one entry replaced.
GivenMatrices(spec) ==
    LET M == AsFloats(CreateSummingMatrix(spec))
    IN  { [ M EXCEPT ![r][c] = v ] :
            r \in DOMAIN M, c \in 0..(spec.n_bottom - 1), v \in EntryVals }

\* A caller holds a hierarchy spec and a matrix for it.
HGivenInit ==
    /\ hpc = "given"
    /\ hdf \in HTables
    /\ hierarchy_spec = BuildHierarchySpec(hdf)
    /\ given \in GivenMatrices(hierarchy_spec)
    /\ S = None /\ validation = None
    /\ bottom_forecasts = None /\ aggregated = None
    /\ forecasts = None /\ consistency = None /\ rebuilt = None

\* validate_summing_matrix(S, hierarchy_spec) on the caller's matrix
HValidateGiven ==
    /\ hpc = "given"
    /\ validation' = ValidateSummingMatrix(given, hierarchy_spec)
    /\ hpc' = IF validation' = "True" THEN "accepted" ELSE "rejected"
    /\ UNCHANGED <<hdf, hierarchy_spec, S, bottom_forecasts, aggregated, forecasts,
                   consistency, rebuilt, given, wvars, fvars, svars, mvars, xvars,
                   evars, pvars>>

\* aggregate_bottom_forecasts(bottom_forecasts, S), on a vector or on the
\* forecasts of one period given as a 2-d array
HAggregate ==
    /\ hpc = "validated"
    /\ \E b \in [ 0..(hierarchy_spec.n_bottom - 1) -> ForecastVals ] :
          \E bf \in { Array1d(b), Array2d(<<b>>) } :
              /\ bottom_forecasts' = bf
              /\ IF CoreDimensionsAgree(S, b)
                 THEN /\ aggregated' = AggregateBottomForecasts(bf, S)
                      /\ hpc' = "aggregated"
                 ELSE /\ aggregated' = aggregated
                      /\ hpc' = "ValueError"
    /\ UNCHANGED <<hdf, hierarchy_spec, S, validation, forecasts, consistency, rebuilt,
                   given, wvars, fvars, svars, mvars, xvars, evars, pvars>>

\* aggregate_bottom_forecasts(bottom_forecasts, S) on a caller's forecasts,
\* of any length
HAggregateGiven ==
    /\ hpc = "validated"
    /\ \E n \in 1..MaxBottom : \E b \in [ 0..(n - 1) -> ForecastVals ] :
          \E bf \in { Array1d(b), Array2d(<<b>>) } :
              /\ bottom_forecasts' = bf
              /\ IF CoreDimensionsAgree(S, b)
                 THEN /\ aggregated' = AggregateBottomForecasts(bf, S)
                      /\ hpc' = "aggregated"
                 ELSE /\ aggregated' = aggregated
                      /\ hpc' = "ValueError"
    /\ UNCHANGED <<hdf, hierarchy_spec, S, validation, forecasts, consistency, rebuilt,
                   given, wvars, fvars, svars, mvars, xvars, evars, pvars>>

\* A caller's hierarchy spec: its n_bottom is any number, equal or not to
\* n_stores * n_families and to the number of bottom_ids and tags.
GivenSpecs(df) ==
    { [ BuildHierarchySpec(df) EXCEPT !.n_bottom = n ] : n \in 1..MaxBottom }

HMismatchInit ==
    /\ hpc = "spec"
    /\ hdf \in HTables
    /\ hierarchy_spec \in GivenSpecs(hdf)
    /\ S = None /\ validation = None
    /\ bottom_forecasts = None /\ aggregated = None
    /\ forecasts = None /\ consistency = None /\ rebuilt = None /\ given = None

-----------------------------------------------------------------------------
(* mlrf_ml.reconciliation: forecast frames and verify_hierarchy_consistency *)

\* The unique_id of every row of S: the Total node, the store nodes, the
\* family nodes (named by the tags), then the bottom series.
NodeIds(spec) ==
    Distinct(spec.tags.Total) \o Distinct(spec.tags.Store)
        \o Distinct(spec.tags.Family) \o spec.bottom_ids

\* A frame with the columns unique_id, ds, "model" (base forecasts) and
\* "model/BottomUp" (S @ bottom forecasts), one row per node and period.  The
\* base forecast of the Total node is base_total; the other base forecasts
\* are those of the array all_forecasts.
ForecastFrame(spec, all_forecasts, base_total) ==
    LET ids == NodeIds(spec)
        periods == IF all_forecasts.ndim = 1 THEN <<all_forecasts.data>>
                   ELSE all_forecasts.data
        n == Len(ids)
    IN  [ columns |-> <<"unique_id", "ds", "model", "model/BottomUp">>,
          rows |-> [ k \in 1..(n * Len(periods)) |->
              LET p == ((k - 1) \div n) + 1
                  node == (k - 1) % n
              IN  [ unique_id |-> ids[node + 1],
                    ds |-> p,
                    values |-> [ c \in {"model", "model/BottomUp"} |->
                        IF c = "model" /\ node = 0 THEN base_total
                        ELSE periods[p][node] ] ] ] ]

\* The frame with only the given value columns.
SelectColumns(frame, cols) ==
    [ columns |-> <<"unique_id", "ds">> \o cols,
      rows |-> [ k \in 1..Len(frame.rows) |->
          [ unique_id |-> frame.rows[k].unique_id,
            ds |-> frame.rows[k].ds,
            values |-> [ c \in { cols[n] : n \in 1..Len(cols) } |->
                           frame.rows[k].values[c] ] ] ] ]

\* value_cols = [c for c in forecasts.columns if c not in ["unique_id", "ds"]]
ValueCols(frame) ==
    SelectSeq(frame.columns, LAMBDA c : c \notin {"unique_id", "ds"})

\* forecasts.groupby("unique_id")[col].mean().to_dict(): for every id of the
\* frame, the mean of its values, as the pair (sum, count)
ValuesById(frame, col) ==
    [ uid \in { frame.rows[k].unique_id : k \in 1..Len(frame.rows) } |->
        LET of_id == SelectSeq(frame.rows, LAMBDA r : r.unique_id = uid)
        IN  [ sum |-> SumSeq([ k \in 1..Len(of_id) |-> of_id[k].values[col] ]),
              count |-> Len(of_id) ] ]

\* values_by_id.get(uid, 0)
Get(values_by_id, uid) ==
    IF uid \in DOMAIN values_by_id THEN values_by_id[uid]
    ELSE [ sum |-> 0, count |-> 1 ]

RECURSIVE Product(_)
Product(s) == IF s = <<>> THEN 1 ELSE Head(s) * Product(Tail(s))

\* The common denominator of the means of the bottom series.
Denominator(values_by_id, bottom_ids) ==
    Product([ k \in 1..Len(bottom_ids) |-> Get(values_by_id, bottom_ids[k]).count ])

\* bottom_values = np.array([values_by_id.get(uid, 0) for uid in bottom_ids]),
\* every mean multiplied by the common denominator
BottomValues(values_by_id, bottom_ids) ==
    LET den == Denominator(values_by_id, bottom_ids)
    IN  [ c \in 0..(Len(bottom_ids) - 1) |->
            Get(values_by_id, bottom_ids[c + 1]).sum
                * (den \div Get(values_by_id, bottom_ids[c + 1]).count) ]

\* expected_all = S @ bottom_values; expected_total = expected_all[0]
ExpectedTotalMutant(M, bottom_values) == MatVec(M, bottom_values)[1]
ExpectedTotal(M, bottom_values) == MatVec(M, bottom_values)[0]

\* actual_total = sum(values_by_id.get(uid, 0) for uid in bottom_ids)
ActualTotal(values_by_id, bottom_ids) ==
    SumTo(BottomValues(values_by_id, bottom_ids), Len(bottom_ids))

\* if abs(expected_total - actual_total) > tol, for the column col
Inconsistent(frame, col, M, bottom_ids, tol) ==
    LET values_by_id == ValuesById(frame, col)
    IN  Abs(ExpectedTotal(M, BottomValues(values_by_id, bottom_ids))
              - ActualTotal(values_by_id, bottom_ids))
            > tol * Denominator(values_by_id, bottom_ids)

\* verify_hierarchy_consistency: False at the first inconsistent value
\* column, True when the loop ends
VerifyHierarchyConsistency(frame, M, bottom_ids, tol) ==
    LET value_cols == ValueCols(frame)
    IN  ~ \E n \in 1..Len(value_cols) :
              Inconsistent(frame, value_cols[n], M, bottom_ids, tol)

\* The value columns of the frames given to verify_hierarchy_consistency.
ColumnChoices == { <<"model/BottomUp">>, <<"model">>, <<"model", "model/BottomUp">> }

\* A frame is made of the base forecasts and their Bottom-Up reconciliation.
HReconcile ==
    /\ hpc = "aggregated"
    /\ \E base_total \in BaseTotalVals :
          forecasts' = ForecastFrame(hierarchy_spec, aggregated, base_total)
    /\ hpc' = "reconciled"
    /\ UNCHANGED <<hdf, hierarchy_spec, S, validation, bottom_forecasts, aggregated,
                   consistency, rebuilt, given, wvars, fvars, svars, mvars, xvars,
                   evars, pvars>>

\* verify_hierarchy_consistency(forecasts[cols], S, bottom_ids, tol)
HVerify ==
    /\ hpc = "reconciled"
    /\ \E cols \in ColumnChoices, tol \in TolVals :
          consistency' =
              [ cols |-> cols,
                tol |-> tol,
                result |-> VerifyHierarchyConsistency(
                               SelectColumns(forecasts, cols), S,
                               hierarchy_spec.bottom_ids, tol) ]
    /\ hpc' = "verified"
    /\ UNCHANGED <<hdf, hierarchy_spec, S, validation, bottom_forecasts, aggregated,
                   forecasts, rebuilt, given, wvars, fvars, svars, mvars, xvars,
                   evars, pvars>>

-----------------------------------------------------------------------------
(* mlrf_ml.validation *)

MinOf(set) == CHOOSE x \in set : \A y \in set : x <= y
MaxOf(set) == CHOOSE x \in set : \A y \in set : y <= x

\* df.select(pl.col(date_col).min()).item(), .max()
MinDate(df) == MinOf({ df[k] : k \in 1..Len(df) })
MaxDate(df) == MaxOf({ df[k] : k \in 1..Len(df) })

\* train_end = valid_start - timedelta(days=gap_days)
TrainEndMutant(valid_start, gap_days) == valid_start - gap_days + 1
TrainEnd(valid_start, gap_days) == valid_start - gap_days

\* The split boundaries of loop iteration i, working backwards from max_date.
Boundaries(max_date, i, p) ==
    LET offset == i * p.step_days
        valid_end == max_date - offset
        valid_start == valid_end - p.valid_days
        train_end == TrainEnd(valid_start, p.gap_days)
        train_start == train_end - p.train_days
    IN  [ valid_end |-> valid_end, valid_start |-> valid_start,
          train_end |-> train_end, train_start |-> train_start ]

\* df.filter(mask): the rows (by position in df) where the boolean mask holds,
\* in their order, from row k on.
RECURSIVE FilterRows(_, _)
FilterRows(mask, k) ==
    IF k > Len(mask) THEN <<>>
    ELSE (IF mask[k] THEN <<k>> ELSE <<>>) \o FilterRows(mask, k + 1)

\* (date >= train_start) & (date < train_end)
InTrainWindowMutant(d, b) == d >= b.train_start /\ d <= b.train_end
InTrainWindow(d, b) == d >= b.train_start /\ d < b.train_end

\* (date >= valid_start) & (date <= valid_end)
InValidWindowMutant(d, b) == d >= b.valid_start /\ d < b.valid_end
InValidWindow(d, b) == d >= b.valid_start /\ d <= b.valid_end

TrainRows(df, b) == FilterRows([ k \in 1..Len(df) |-> InTrainWindow(df[k], b) ], 1)
ValidRows(df, b) == FilterRows([ k \in 1..Len(df) |-> InValidWindow(df[k], b) ], 1)

\* if train_start < min_date: ... continue
InsufficientHistoryMutant(b, min_date) == b.train_end < min_date
InsufficientHistory(b, min_date) == b.train_start < min_date

\* What one iteration of the loop does with the list.
IterationOutcomeMutant(df, b) ==
    IF InsufficientHistory(b, MinDate(df)) THEN "skipped" ELSE "appended"
IterationOutcome(df, b) ==
    IF InsufficientHistory(b, MinDate(df)) THEN "skipped"
    ELSE IF Len(TrainRows(df, b)) > 0 /\ Len(ValidRows(df, b)) > 0 THEN "appended"
    ELSE "empty"

\* np.clip(y, 0, None)
ClipMutant(y) == y
Clip(y) == IF y < 0 THEN 0 ELSE y

\* (np.log1p(y_pred) - np.log1p(y_true)) ** 2 after clipping, for values up
\* to 1, as a whole number of log(2) ** 2
SquaredLogError(t, p) == IF Clip(p) = Clip(t) THEN 0 ELSE 1

\* compute_all_metrics.  A metric is kept as the sum over the samples and
\* their count n: rmsle is sqrt(sum / n) * log(2), rmse is sqrt(sum / n), mae
\* is sum / n, and mape is sum / (2 * n), its terms abs(y_pred - y_true) /
\* (abs(y_true) + 1) being halves for targets up to 1.
ComputeAllMetrics(y_true, y_pred) ==
    LET n == Len(y_true)
    IN  [ rmsle |-> [ sum |-> SumSeq([ k \in 1..n |->
                                  SquaredLogError(y_true[k], y_pred[k]) ]),
                      n |-> n ],
          rmse |-> [ sum |-> SumSeq([ k \in 1..n |->
                                 (y_pred[k] - y_true[k]) * (y_pred[k] - y_true[k]) ]),
                     n |-> n ],
          mae |-> [ sum |-> SumSeq([ k \in 1..n |-> Abs(y_pred[k] - y_true[k]) ]),
                    n |-> n ],
          mape |-> [ sum |-> SumSeq([ k \in 1..n |->
                                 (2 * Abs(y_pred[k] - y_true[k]))
                                     \div (Abs(y_true[k]) + 1) ]),
                     n |-> n ],
          n_samples |-> n ]

\* y_true = valid_df.select(target_col).to_numpy().ravel()
YTrue(fold, target) == [ n \in 1..Len(fold.valid) |-> target[fold.valid[n]] ]

\* y_pred = model_fn(train_df, valid_df), for a model that predicts pred
YPred(fold, pred) == [ n \in 1..Len(fold.valid) |-> pred ]

\* all_y_true.extend(y_true), all_y_pred.extend(y_pred)
ExtendMutant(all, y) == y
Extend(all, y) == all \o y

\* all_y_true and all_y_pred after the first k folds, as a pair
RECURSIVE Pooled(_, _, _, _)
Pooled(folds, target, pred, k) ==
    IF k = 0 THEN << <<>>, <<>> >>
    ELSE LET before == Pooled(folds, target, pred, k - 1)
         IN  << Extend(before[1], YTrue(folds[k], target)),
                Extend(before[2], YPred(folds[k], pred)) >>

\* "n_splits": len(splits)
NSplitsReportedMutant(folds, p) == p.n_splits
NSplitsReported(folds, p) == Len(folds)

\* The dict evaluate_model_cv returns.  np.mean and np.std of the per-fold
\* RMSLE values are kept as the list they are taken of.
CvResult(folds, target, pred, p) ==
    LET fold_metrics ==
            [ k \in 1..Len(folds) |->
                LET metrics == ComputeAllMetrics(YTrue(folds[k], target),
                                                 YPred(folds[k], pred))
                IN  [ rmsle |-> metrics.rmsle, rmse |-> metrics.rmse,
                      mae |-> metrics.mae, mape |-> metrics.mape,
                      n_samples |-> metrics.n_samples, fold |-> k ] ]
        all == Pooled(folds, target, pred, Len(folds))
    IN  [ fold_metrics |-> fold_metrics,
          aggregate |-> ComputeAllMetrics(all[1], all[2]),
          mean_rmsle |-> [ mean_of |-> [ k \in 1..Len(folds) |-> fold_metrics[k].rmsle ] ],
          std_rmsle |-> [ std_of |-> [ k \in 1..Len(folds) |-> fold_metrics[k].rmsle ] ],
          n_splits |-> NSplitsReported(folds, p) ]

\* The target column of the panel: 0 and 1 in turn, from either.
TargetColumns(df) == { [ k \in 1..Len(df) |-> (k + first) % 2 ] : first \in {0, 1} }

RECURSIVE NonDecreasing(_)
NonDecreasing(s) == Len(s) <= 1 \/ (s[1] <= s[2] /\ NonDecreasing(Tail(s)))

\* Panels: at least one row, sorted by date; several rows may share a date.
WTables ==
    { t \in UNION { [ 1..n -> 0..MaxDay ] : n \in 1..MaxWRows } : NonDecreasing(t) }

\* The parameters: a training window of at least one day, the other day
\* counts from 0 on.
WParams ==
    [ train_days : 1..MaxTrainDays, valid_days : 0..MaxDays, gap_days : 0..MaxDays,
      n_splits : 0..MaxSplits, step_days : 0..MaxDays ]

WIdle ==
    /\ wpc = "idle" /\ wdf = <<>> /\ params = None /\ fold_i = 0 /\ splits = <<>>
    /\ last = None /\ skipped = 0 /\ dropped = 0 /\ kept_folds = <<>>
    /\ model_calls = <<>> /\ cv_input = None /\ cv_result = None

WInit ==
    /\ wpc = "loop"
    /\ wdf \in WTables
    /\ params \in WParams
    /\ fold_i = 0 /\ splits = <<>> /\ last = None
    /\ skipped = 0 /\ dropped = 0 /\ kept_folds = <<>>
    /\ model_calls = <<>> /\ cv_input = None /\ cv_result = None

\* splits.append((train_df, valid_df))
KeepFoldMutant(folds, fold) == <<fold>> \o folds
KeepFold(folds, fold) == Append(folds, fold)

\* walk_forward_split: one iteration of "for i in range(n_splits)"
WIterate ==
    /\ wpc = "loop"
    /\ fold_i < params.n_splits
    /\ LET b == Boundaries(MaxDate(wdf), fold_i, params)
           outcome == IterationOutcome(wdf, b)
       IN  /\ last' = [ i |-> fold_i, bounds |-> b, outcome |-> outcome ]
           /\ splits' = IF outcome = "appended"
                        THEN KeepFold(splits, [ train |-> TrainRows(wdf, b),
                                                valid |-> ValidRows(wdf, b) ])
                        ELSE splits
           /\ kept_folds' = IF outcome = "appended"
                      THEN Append(kept_folds, [ i |-> fold_i, bounds |-> b ])
                      ELSE kept_folds
           /\ skipped' = IF outcome = "skipped" THEN skipped + 1 ELSE skipped
           /\ dropped' = IF outcome = "empty" THEN dropped + 1 ELSE dropped
    /\ fold_i' = fold_i + 1
    /\ UNCHANGED <<wpc, wdf, params, model_calls, cv_input, cv_result, hvars, fvars,
                   svars, mvars, xvars, evars, pvars>>

\* walk_forward_split: the range is exhausted, return splits
WReturn ==
    /\ wpc = "loop"
    /\ fold_i >= params.n_splits
    /\ wpc' = "returned"
    /\ UNCHANGED <<wdf, params, fold_i, splits, last, skipped, dropped, kept_folds, model_calls,
                   cv_input, cv_result, hvars, fvars, svars, mvars, xvars, evars, pvars>>

\* for i, (train_df, valid_df) in enumerate(splits): the loop has run
\* through all of splits after as many iterations as splits has folds
LoopDoneMutant(iterations, folds) == TRUE
LoopDone(iterations, folds) == iterations = Len(folds)

\* evaluate_model_cv: one iteration of the loop over splits.  model_fn is
\* called with the fold's train_df and valid_df and returns its predictions,
\* or raises, which ends evaluate_model_cv.  The predictions are those of
\* the model that WEvaluate draws.
WCallModel ==
    /\ wpc \in {"returned", "evaluating"}
    /\ ~ LoopDone(Len(model_calls), splits)
    /\ model_calls' = Append(model_calls, splits[Len(model_calls) + 1])
    /\ \E end \in {"evaluating", "model_fn raised"} : wpc' = end
    /\ UNCHANGED <<wdf, params, fold_i, splits, last, skipped, dropped, kept_folds, cv_input,
                   cv_result, hvars, fvars, svars, mvars, xvars, evars, pvars>>

\* evaluate_model_cv, after its loop: the aggregate metrics and the returned
\* dict
WEvaluate ==
    /\ wpc \in {"returned", "evaluating"}
    /\ LoopDone(Len(model_calls), splits)
    /\ \E target \in TargetColumns(wdf), pred \in PredVals :
          /\ cv_result' = CvResult(splits, target, pred, params)
          /\ cv_input' = [ target |-> target, pred |-> pred ]
    /\ wpc' = "evaluated"
    /\ UNCHANGED <<wdf, params, fold_i, splits, last, skipped, dropped, kept_folds, model_calls,
                   hvars, fvars, svars, mvars, xvars, evars, pvars>>

(* mlrf_data.features *)

\* A nullable value is <<>> (null) or <<v>>.
Null == <<>>
Some(v) == <<v>>

\* The rows of df (by position) whose group key is g, in table order.
RECURSIVE GroupRows(_, _, _)
GroupRows(df, g, k) ==
    IF k > Len(df) THEN <<>>
    ELSE (IF df[k].grp = g THEN <<k>> ELSE <<>>) \o GroupRows(df, g, k + 1)

\* The target column restricted to group g.
GroupSeries(df, g) ==
    LET rows == GroupRows(df, g, 1) IN [ t \in 1..Len(rows) |-> Some(df[rows[t]].sales) ]

\* Series.shift(n): the value n places earlier, null at the first n places.
Shift(series, n) ==
    [ t \in 1..Len(series) |-> IF t - n >= 1 THEN series[t - n] ELSE Null ]

\* Series.rolling_mean(window_size): null unless the window holds window_size
\* non-null values (min_periods defaults to the window size).
RollingMean(series, window) ==
    [ t \in 1..Len(series) |->
        IF t - window + 1 < 1 \/ \E u \in (t - window + 1)..t : series[u] = Null
        THEN Null
        ELSE Some([ sum |-> SumSeq([ u \in 1..window |-> series[t - window + u][1] ]),
                    count |-> window ]) ]

\* Series.rolling_std(window_size): kept as the window's sum, sum of squares
\* and count.
RollingStd(series, window) ==
    [ t \in 1..Len(series) |->
        IF t - window + 1 < 1 \/ \E u \in (t - window + 1)..t : series[u] = Null
        THEN Null
        ELSE Some([ sum |-> SumSeq([ u \in 1..window |-> series[t - window + u][1] ]),
                    sumsq |-> SumSeq([ u \in 1..window |->
                        series[t - window + u][1] * series[t - window + u][1] ]),
                    count |-> window ]) ]

GroupKeys(df) == { df[k].grp : k \in 1..Len(df) }

\* expr.over(group_cols): the expression is evaluated on each group's series
\* (evaluated[g] is its result on group g) and each value goes back to the
\* row it came from.
Over(df, evaluated) ==
    [ k \in 1..Len(df) |->
        LET rows == GroupRows(df, df[k].grp, 1)
            t == CHOOSE u \in 1..Len(rows) : rows[u] = k
        IN  evaluated[df[k].grp][t] ]

\* pl.col(target_col).shift(lag).over(group_cols)
LagColumnMutant(df, lag) ==
    Shift([ k \in 1..Len(df) |-> Some(df[k].sales) ], lag)
LagColumn(df, lag) ==
    Over(df, [ g \in GroupKeys(df) |-> Shift(GroupSeries(df, g), lag) ])

\* pl.col(target_col).shift(1): the shift that precedes a rolling statistic
ShiftForRollingMutant(series) == Shift(series, 0)
ShiftForRolling(series) == Shift(series, 1)

\* pl.col(target_col).shift(1).rolling_mean(window_size=window).over(group_cols)
RollingMeanColumn(df, window) ==
    Over(df, [ g \in GroupKeys(df) |->
                 RollingMean(ShiftForRolling(GroupSeries(df, g)), window) ])

\* pl.col(target_col).shift(1).rolling_std(window_size=window).over(group_cols)
RollingStdColumn(df, window) ==
    Over(df, [ g \in GroupKeys(df) |->
                 RollingStd(ShiftForRolling(GroupSeries(df, g)), window) ])

\* for lag in lags: df = df.with_columns(... .alias(f"{target_col}_lag_{lag}"))
CreateLagFeatures(df, lags) ==
    [ lag \in { lags[n] : n \in 1..Len(lags) } |-> LagColumn(df, lag) ]

\* for window in windows: the rolling mean column, then the rolling std column
CreateRollingFeatures(df, windows) ==
    [ window \in { windows[n] : n \in 1..Len(windows) } |->
        [ mean |-> RollingMeanColumn(df, window),
          std |-> RollingStdColumn(df, window) ] ]

Groups == {1, 2}
SalesVals == {0, 1}

\* Tables in which every group has one row per day, in date order; the rows
\* of different groups may follow each other in any order.
MkTable(g, v) ==
    [ k \in 1..Len(g) |->
        [ grp |-> g[k],
          date |-> Cardinality({ j \in 1..(k - 1) : g[j] = g[k] }),
          sales |-> v[k] ] ]

FTables ==
    UNION { { MkTable(g, v) : g \in [ 1..n -> Groups ], v \in [ 1..n -> SalesVals ] } :
            n \in 1..MaxFRows }

\* The lists of lags: one lag, or all of 1..MaxLag.
LagLists == { <<k>> : k \in 1..MaxLag } \cup { [ n \in 1..MaxLag |-> n ] }
WindowLists == { <<w>> : w \in 1..MaxWindow } \cup { [ n \in 1..MaxWindow |-> n ] }

FIdle ==
    /\ fpc = {"idle"} /\ fdf = <<>> /\ lag_cols = None /\ rolling_cols = None
    /\ feature_matrix = None

FInit ==
    /\ fpc = {}
    /\ fdf \in FTables
    /\ lag_cols = None /\ rolling_cols = None
    /\ feature_matrix = None

\* create_lag_features(df, group_cols, lags=lags)
FCreateLagFeatures ==
    /\ fpc \cap {"idle", "lag", "built"} = {}
    /\ \E lags \in LagLists : lag_cols' = CreateLagFeatures(fdf, lags)
    /\ fpc' = fpc \cup {"lag"}
    /\ UNCHANGED <<fdf, rolling_cols, feature_matrix, hvars, wvars, svars, mvars, xvars,
                   evars, pvars>>

\* create_rolling_features(df, group_cols, windows=windows)
FCreateRollingFeatures ==
    /\ fpc \cap {"idle", "rolling", "built"} = {}
    /\ \E windows \in WindowLists : rolling_cols' = CreateRollingFeatures(fdf, windows)
    /\ fpc' = fpc \cup {"rolling"}
    /\ UNCHANGED <<fdf, lag_cols, feature_matrix, hvars, wvars, svars, mvars, xvars, evars,
                   pvars>>

\* df.sort(group_cols + ["date"]): the rows ordered by group, then by date.
RECURSIVE SortRows(_)
SortRows(rows) ==
    IF rows = {} THEN <<>>
    ELSE LET m == CHOOSE x \in rows : \A y \in rows \ {x} :
                      x.grp < y.grp \/ (x.grp = y.grp /\ x.date < y.date)
         IN  <<m>> \o SortRows(rows \ {m})

\* lags = [1, 7, 14, 28, forecast_horizon]
Lags(forecast_horizon) == <<1, 7, 14, 28, forecast_horizon>>

\* windows = [7, 14, 28, forecast_horizon]
Windows(forecast_horizon) == <<7, 14, 28, forecast_horizon>>

\* subset=[f"sales_lag_{forecast_horizon}"]: the lag whose column decides
\* which rows drop_nulls removes
DropSubsetMutant(forecast_horizon) == 1
DropSubset(forecast_horizon) == forecast_horizon

\* build_feature_matrix: sort, add the lag and rolling columns, drop the rows
\* whose sales_lag_{forecast_horizon} is null.  The date, promotion and
\* identifier columns are left out: no row is added or removed by them.
BuildFeatureMatrix(df, forecast_horizon) ==
    LET sorted == SortRows({ df[k] : k \in 1..Len(df) })
        lag == CreateLagFeatures(sorted, Lags(forecast_horizon))
        rolling == CreateRollingFeatures(sorted, Windows(forecast_horizon))
        kept == FilterRows([ k \in 1..Len(sorted) |->
                               lag[DropSubset(forecast_horizon)][k] # Null ], 1)
    IN  [ n \in 1..Len(kept) |->
            [ grp |-> sorted[kept[n]].grp,
              date |-> sorted[kept[n]].date,
              sales |-> sorted[kept[n]].sales,
              lag |-> [ l \in DOMAIN lag |-> lag[l][kept[n]] ],
              rolling_mean |-> [ w \in DOMAIN rolling |-> rolling[w].mean[kept[n]] ],
              rolling_std |-> [ w \in DOMAIN rolling |-> rolling[w].std[kept[n]] ] ] ]

\* The table in the opposite row order.
Reversed(df) == [ k \in 1..Len(df) |-> df[Len(df) + 1 - k] ]

\* build_feature_matrix(df, forecast_horizon), on the table in date order or
\* in the opposite order
FBuildFeatureMatrix ==
    /\ fpc = {}
    /\ \E df \in { fdf, Reversed(fdf) }, forecast_horizon \in 1..MaxHorizon :
          feature_matrix' = [ df |-> df,
                              forecast_horizon |-> forecast_horizon,
                              result |-> BuildFeatureMatrix(df, forecast_horizon) ]
    /\ fpc' = {"built"}
    /\ UNCHANGED <<fdf, lag_cols, rolling_cols, hvars, wvars, svars, mvars, xvars, evars,
                   pvars>>

-----------------------------------------------------------------------------
(* mlrf_ml.reconciliation: select_best_reconciliation_method *)

\* The method columns, in sorted order of their names.
MethodNames == <<"BottomUp/", "MinTrace/", "TopDown/">>
LevelNames == <<"Total", "Store">>
MetricNames == {"rmse", "mae"}

\* The sequences of distinct method columns, in any order.
MethodLists ==
    { m \in UNION { [ 1..n -> { MethodNames[k] : k \in 1..Len(MethodNames) } ] :
                      n \in 1..MaxMethods } :
        \A a, b \in 1..Len(m) : a # b => m[a] # m[b] }

\* The frame evaluate_reconciliation returns: for every method column, in
\* their order, one row per level.
EvaluationFrame(methods, metrics) ==
    [ k \in 1..(Len(methods) * Len(LevelNames)) |->
        LET m == ((k - 1) \div Len(LevelNames)) + 1
            l == ((k - 1) % Len(LevelNames)) + 1
        IN  [ method |-> methods[m], level |-> LevelNames[l],
              rmse |-> metrics[m][l].rmse, mae |-> metrics[m][l].mae ] ]

EvaluationFrames ==
    UNION { { EvaluationFrame(methods, metrics) :
                metrics \in [ 1..Len(methods) -> [ 1..Len(LevelNames) -> Scores ] ] } :
            methods \in MethodLists }

\* if level is not None: df = df[df["level"] == level]
LevelFilterMutant(df, level) == df
LevelFilter(df, level) ==
    IF level # None THEN SelectSeq(df, LAMBDA r : r.level = level) ELSE df

\* df.groupby("method")[metric].mean(): one entry per method, in sorted order
\* of the method names; a mean is the pair (sum, count).
GroupByMean(df, metric) ==
    LET present == SelectSeq(MethodNames,
                             LAMBDA m : \E k \in 1..Len(df) : df[k].method = m)
    IN  [ n \in 1..Len(present) |->
            LET of_method == SelectSeq(df, LAMBDA r : r.method = present[n])
            IN  [ method |-> present[n],
                  sum |-> SumSeq([ k \in 1..Len(of_method) |-> of_method[k][metric] ]),
                  count |-> Len(of_method) ] ]

\* a <= b for two means
MeanLeqMutant(a, b) == b.sum * a.count <= a.sum * b.count
MeanLeq(a, b) == a.sum * b.count <= b.sum * a.count

\* .sort_values(): ascending; the default sort is not stable, so entries
\* with equal values come out in any order.
SortValues(scores) ==
    { [ n \in 1..Len(scores) |-> scores[perm[n]] ] :
        perm \in { q \in [ 1..Len(scores) -> 1..Len(scores) ] :
                     /\ \A a, b \in 1..Len(scores) : a # b => q[a] # q[b]
                     /\ \A a \in 1..(Len(scores) - 1) :
                            MeanLeq(scores[q[a]], scores[q[a + 1]]) } }

\* The values select_best_reconciliation_method can return:
\* method_scores.index[0] of each possible order.
SelectBestReconciliationMethod(df, metric, level) ==
    { method_scores[1].method :
        method_scores \in SortValues(GroupByMean(LevelFilter(df, level), metric)) }

SIdle == spc = "idle" /\ evaluation_results = <<>> /\ selection = None

SInit == spc = "evaluated" /\ evaluation_results \in EvaluationFrames /\ selection = None

\* select_best_reconciliation_method(evaluation_results, metric, level)
SSelectBest ==
    /\ spc = "evaluated"
    /\ \E metric \in MetricNames,
          level \in {None} \cup { LevelNames[k] : k \in 1..Len(LevelNames) } :
          \E best_method \in
                 SelectBestReconciliationMethod(evaluation_results, metric, level) :
              selection' = [ metric |-> metric, level |-> level,
                             best_method |-> best_method ]
    /\ spc' = "selected"
    /\ UNCHANGED <<evaluation_results, hvars, wvars, fvars, mvars, xvars, evars,
                   pvars>>

-----------------------------------------------------------------------------
(* mlrf_ml.validation: rmsle, rmse *)

\* A float the metrics produce is a record: kind "number" with its value,
\* kind "nan", "inf" or "-inf", kind "log1p" for log(1 + value), kind
\* "squared" for (log(1 + terms[1]) - log(1 + terms[2])) ** 2, kind
\* "sqrt_mean" for the square root of the mean of terms, and kind "sqrt" for
\* sqrt(terms[1] / terms[2]).
Float(kind, value, terms) == [ kind |-> kind, value |-> value, terms |-> terms ]

Number(v) == Float("number", v, <<>>)

NaN == Float("nan", 0, <<>>)

\* np.log1p: -inf at -1 and nan below it
Log1p(v) ==
    IF v < -1 THEN NaN
    ELSE IF v = -1 THEN Float("-inf", 0, <<>>)
    ELSE IF v = 0 THEN Number(0)
    ELSE Float("log1p", v, <<>>)

\* (np.log1p(p) - np.log1p(t)) ** 2
SquaredLogDifference(p, t) ==
    LET a == Log1p(p)
        b == Log1p(t)
    IN  IF a.kind = "nan" \/ b.kind = "nan" THEN NaN
        ELSE IF a.kind = "-inf" /\ b.kind = "-inf" THEN NaN
        ELSE IF a.kind = "-inf" \/ b.kind = "-inf" THEN Float("inf", 0, <<>>)
        ELSE IF a = b THEN Number(0)
        ELSE Float("squared", 0, <<p, t>>)

\* np.sqrt(np.mean(terms)) of an array of floats; the mean of an empty array
\* is nan
SqrtMean(terms) ==
    IF Len(terms) = 0 THEN NaN
    ELSE IF \E k \in 1..Len(terms) : terms[k].kind = "nan" THEN NaN
    ELSE IF \E k \in 1..Len(terms) : terms[k].kind = "inf" THEN Float("inf", 0, <<>>)
    ELSE IF \A k \in 1..Len(terms) : terms[k] = Number(0) THEN Number(0)
    ELSE Float("sqrt_mean", 0, terms)

\* The integer square root.
ISqrt(x) == CHOOSE r \in 0..x : r * r <= x /\ (r + 1) * (r + 1) > x

\* np.sqrt(sum / n) for whole sum and n; the mean of an empty array is nan
SqrtOfQuotient(sum, n) ==
    IF n = 0 THEN NaN
    ELSE IF sum % n = 0 /\ ISqrt(sum \div n) * ISqrt(sum \div n) = sum \div n
         THEN Number(ISqrt(sum \div n))
    ELSE Float("sqrt", 0, <<sum, n>>)

\* np.clip(y, 0, None) of a vector
ClipAll(y) == [ k \in 1..Len(y) |-> Clip(y[k]) ]

\* rmsle(y_true, y_pred)
Rmsle(actual, predicted) ==
    LET t == ClipAll(actual)
        p == ClipAll(predicted)
    IN  SqrtMean([ k \in 1..Len(t) |-> SquaredLogDifference(p[k], t[k]) ])

\* rmse(y_true, y_pred)
Rmse(actual, predicted) ==
    SqrtOfQuotient(SumSeq([ k \in 1..Len(actual) |->
                               (predicted[k] - actual[k]) * (predicted[k] - actual[k]) ]),
                   Len(actual))

\* Vectors of one length.
Vectors(n) == [ 1..n -> SampleVals ]

MIdle == mpc = {} /\ metric_y_true = <<>> /\ metric_y_pred = <<>> /\ score = None

MInit ==
    /\ mpc = {}
    /\ \E n \in 0..MaxSamples : metric_y_true \in Vectors(n) /\ metric_y_pred \in Vectors(n)
    /\ score = [ rmsle |-> None, rmse |-> None ]

\* score = rmsle(y_true, y_pred)
MRmsle ==
    /\ "rmsle" \notin mpc
    /\ mpc' = mpc \cup {"rmsle"}
    /\ score' = [ score EXCEPT !.rmsle = Rmsle(metric_y_true, metric_y_pred) ]
    /\ UNCHANGED <<metric_y_true, metric_y_pred, hvars, wvars, fvars, svars, xvars, evars,
                   pvars>>

\* score = rmse(y_true, y_pred)
MRmse ==
    /\ "rmse" \notin mpc
    /\ mpc' = mpc \cup {"rmse"}
    /\ score' = [ score EXCEPT !.rmse = Rmse(metric_y_true, metric_y_pred) ]
    /\ UNCHANGED <<metric_y_true, metric_y_pred, hvars, wvars, fvars, svars, xvars, evars,
                   pvars>>

-----------------------------------------------------------------------------
(* mlrf_shap.service: ShapService *)

\* if len(features) != 27
ExpectedFeatures == 27

\* Lock.acquire on entering "with self._lock": possible when no caller
\* holds the lock
CanAcquireMutant(holder) == TRUE
CanAcquire(holder) == holder = 0

\* self.requests_served += 1, the value stored
IncrementedMutant(value) == value
Incremented(value) == value + 1

XIdle ==
    /\ xpc = <<>> /\ features_len = <<>> /\ loaded = <<>> /\ lock = 0
    /\ requests_served = 0 /\ model = None /\ explainer = None
    /\ started = 0 /\ outcomes = <<>> /\ health = <<>> /\ observed = <<>>

\* The service after __init__: the model and the explainer are loaded
\* (otherwise __init__ raised) and requests_served = 0.
XInit ==
    /\ xpc = [ c \in Callers |-> "idle" ]
    /\ features_len = [ c \in Callers |-> 0 ]
    /\ loaded = [ c \in Callers |-> 0 ]
    /\ lock = 0
    /\ requests_served = 0
    /\ model = "Booster" /\ explainer = "TreeExplainer"
    /\ started = 0
    /\ outcomes = [ returned |-> 0, ValueError |-> 0, raised |-> 0 ]
    /\ health = <<>>
    /\ observed = <<>>

\* A caller enters explain(store_nbr, family, date, features).
XExplain(c) ==
    /\ xpc[c] = "idle"
    /\ started < MaxExplainCalls
    /\ \E n \in FeatureCounts : features_len' = [ features_len EXCEPT ![c] = n ]
    /\ started' = started + 1
    /\ xpc' = [ xpc EXCEPT ![c] = "acquire" ]
    /\ UNCHANGED <<loaded, lock, requests_served, model, explainer, outcomes, health, observed,
                   hvars, wvars, fvars, svars, mvars, evars, pvars>>

\* with self._lock: (entry)
XAcquire(c) ==
    /\ xpc[c] = "acquire"
    /\ CanAcquire(lock)
    /\ lock' = c
    /\ xpc' = [ xpc EXCEPT ![c] = "load" ]
    /\ UNCHANGED <<features_len, loaded, requests_served, model, explainer, started,
                   outcomes, health, observed, hvars, wvars, fvars, svars, mvars,
                   evars, pvars>>

\* self.requests_served += 1: the read of self.requests_served
XLoad(c) ==
    /\ xpc[c] = "load"
    /\ loaded' = [ loaded EXCEPT ![c] = requests_served ]
    /\ xpc' = [ xpc EXCEPT ![c] = "store" ]
    /\ UNCHANGED <<features_len, lock, requests_served, model, explainer, started,
                   outcomes, health, observed, hvars, wvars, fvars, svars, mvars,
                   evars, pvars>>

\* self.requests_served += 1: the write of self.requests_served
XStore(c) ==
    /\ xpc[c] = "store"
    /\ requests_served' = Incremented(loaded[c])
    /\ loaded' = [ loaded EXCEPT ![c] = 0 ]
    /\ xpc' = [ xpc EXCEPT ![c] = "release" ]
    /\ UNCHANGED <<features_len, lock, model, explainer, started, outcomes, health, observed,
                   hvars, wvars, fvars, svars, mvars, evars, pvars>>

\* with self._lock: (exit)
XRelease(c) ==
    /\ xpc[c] = "release"
    /\ lock' = 0
    /\ xpc' = [ xpc EXCEPT ![c] = "validate" ]
    /\ UNCHANGED <<features_len, loaded, requests_served, model, explainer, started,
                   outcomes, health, observed, hvars, wvars, fvars, svars, mvars,
                   evars, pvars>>

\* if len(features) != 27: raise ValueError
XValidate(c) ==
    /\ xpc[c] = "validate"
    /\ IF features_len[c] # ExpectedFeatures
       THEN /\ outcomes' = [ outcomes EXCEPT !.ValueError = @ + 1 ]
            /\ xpc' = [ xpc EXCEPT ![c] = "idle" ]
            /\ features_len' = [ features_len EXCEPT ![c] = 0 ]
       ELSE /\ xpc' = [ xpc EXCEPT ![c] = "compute" ]
            /\ UNCHANGED <<outcomes, features_len>>
    /\ UNCHANGED <<loaded, lock, requests_served, model, explainer, started, health, observed,
                   hvars, wvars, fvars, svars, mvars, evars, pvars>>

\* The rest of explain: the explainer is called and the waterfall is built
\* from its values and returned, or the explainer raises.  Nothing of the
\* service is assigned.
XCompute(c) ==
    /\ xpc[c] = "compute"
    /\ \E end \in {"returned", "raised"} :
          outcomes' = [ outcomes EXCEPT ![end] = @ + 1 ]
    /\ xpc' = [ xpc EXCEPT ![c] = "idle" ]
    /\ features_len' = [ features_len EXCEPT ![c] = 0 ]
    /\ UNCHANGED <<loaded, lock, requests_served, model, explainer, started, health, observed,
                   hvars, wvars, fvars, svars, mvars, evars, pvars>>

\* health(), called by anyone at any time, without the lock
XHealth ==
    /\ health' = << [ healthy |-> model # None /\ explainer # None,
                      requests_served |-> requests_served ] >>
    /\ observed' = << [ started |-> started,
                        running |-> Cardinality({ c \in Callers : xpc[c] # "idle" }) ] >>
    /\ UNCHANGED <<xpc, features_len, loaded, lock, requests_served, model, explainer,
                   started, outcomes, hvars, wvars, fvars, svars, mvars, evars, pvars>>

-----------------------------------------------------------------------------
(* mlrf_ml.explainability: create_waterfall_data *)

\* np.argsort(-np.abs(shap_values)): the indices 0..n-1 by decreasing
\* absolute value, equal absolute values in any order (the sort is not
\* stable)
Argsort(values) ==
    LET n == Len(values)
    IN  { order \in [ 1..n -> 0..(n - 1) ] :
            /\ \A a, b \in 1..n : a # b => order[a] # order[b]
            /\ \A a \in 1..(n - 1) :
                   Abs(values[order[a] + 1]) >= Abs(values[order[a + 1] + 1]) }

\* order[:max_display]
Truncated(order, display) ==
    SubSeq(order, 1, IF display < Len(order) THEN display ELSE Len(order))

\* if abs(other_shap) > 0.01, in hundredths
Significant(other_shap) == Abs(other_shap) > 1

\* "positive" if shap_val > 0 else "negative"
Direction(shap_val) == IF shap_val > 0 THEN "positive" ELSE "negative"

\* The entries of the listed features: cumulative is the running sum that
\* starts at base_value.
RECURSIVE Listed(_, _, _, _)
Listed(values, base, sorted_indices, k) ==
    IF k = 0 THEN <<>>
    ELSE LET before == Listed(values, base, sorted_indices, k - 1)
             cumulative == IF k = 1 THEN base ELSE before[k - 1].cumulative
             idx == sorted_indices[k]
             shap_val == values[idx + 1]
         IN  Append(before, [ name |-> <<"feature", idx>>,
                              value |-> None,
                              shap_value |-> shap_val,
                              cumulative |-> cumulative + shap_val,
                              direction |-> Direction(shap_val) ])

\* create_waterfall_data(shap_values, base_value, feature_names, None,
\* max_display), for one outcome of the argsort
CreateWaterfallData(values, base, display, order) ==
    LET sorted_indices == Truncated(order, display)
        features == Listed(values, base, sorted_indices, Len(sorted_indices))
        cumulative == IF features = <<>> THEN base
                      ELSE features[Len(features)].cumulative
        remaining_indices ==
            SortedInts((0..(Len(values) - 1))
                          \ { sorted_indices[k] : k \in 1..Len(sorted_indices) })
        other_shap == SumSeq([ k \in 1..Len(remaining_indices) |->
                                  values[remaining_indices[k] + 1] ])
        other == [ name |-> <<"Other", Len(remaining_indices)>>,
                   value |-> None,
                   shap_value |-> other_shap,
                   cumulative |-> cumulative + other_shap,
                   direction |-> Direction(other_shap) ]
        with_other == Len(remaining_indices) > 0 /\ Significant(other_shap)
    IN  [ base_value |-> base,
          features |-> IF with_other THEN Append(features, other) ELSE features,
          prediction |-> IF with_other THEN cumulative + other_shap ELSE cumulative ]

EIdle ==
    /\ epc = "idle" /\ shap_values = <<>> /\ base_value = 0 /\ max_display = 0
    /\ waterfall = None

EInit ==
    /\ epc = "called"
    /\ \E n \in 0..MaxShapValues : shap_values \in [ 1..n -> ShapVals ]
    /\ base_value \in BaseVals
    /\ max_display \in 0..MaxDisplay
    /\ waterfall = None

\* create_waterfall_data(shap_values, base_value, feature_names, None,
\* max_display)
ECreateWaterfallData ==
    /\ epc = "called"
    /\ \E order \in Argsort(shap_values) :
          waterfall' = CreateWaterfallData(shap_values, base_value, max_display, order)
    /\ epc' = "returned"
    /\ UNCHANGED <<shap_values, base_value, max_display,
                   hvars, wvars, fvars, svars, mvars, xvars, pvars>>

-----------------------------------------------------------------------------
(* Specifications *)

InitHierarchy == HInit /\ WIdle /\ FIdle /\ SIdle /\ MIdle /\ XIdle /\ EIdle /\ PIdle

NextHierarchy ==
    \/ HBuildSpec \/ HRebuildSpec \/ HCreateMatrix \/ HValidate
    \/ HAggregate \/ HReconcile \/ HVerify

SpecHierarchy == InitHierarchy /\ [][NextHierarchy]_vars

InitSplit == HIdle /\ WInit /\ FIdle /\ SIdle /\ MIdle /\ XIdle /\ EIdle /\ PIdle

NextSplit == WIterate \/ WReturn \/ WCallModel \/ WEvaluate

SpecSplit == InitSplit /\ [][NextSplit]_vars

InitFeatures == HIdle /\ WIdle /\ FInit /\ SIdle /\ MIdle /\ XIdle /\ EIdle /\ PIdle

NextFeatures == FCreateLagFeatures \/ FCreateRollingFeatures \/ FBuildFeatureMatrix

SpecFeatures == InitFeatures /\ [][NextFeatures]_vars

InitSelect == HIdle /\ WIdle /\ FIdle /\ SInit /\ MIdle /\ XIdle /\ EIdle /\ PIdle

NextSelect == SSelectBest

SpecSelect == InitSelect /\ [][NextSelect]_vars

InitValidate == HGivenInit /\ WIdle /\ FIdle /\ SIdle /\ MIdle /\ XIdle /\ EIdle /\ PIdle

NextValidate == HValidateGiven

SpecValidate == InitValidate /\ [][NextValidate]_vars

InitMismatch == HMismatchInit /\ WIdle /\ FIdle /\ SIdle /\ MIdle /\ XIdle /\ EIdle /\ PIdle

NextMismatch == HCreateMatrix \/ HValidate \/ HAggregateGiven

SpecMismatch == InitMismatch /\ [][NextMismatch]_vars

InitMetrics == HIdle /\ WIdle /\ FIdle /\ SIdle /\ MInit /\ XIdle /\ EIdle /\ PIdle

NextMetrics == MRmsle \/ MRmse

SpecMetrics == InitMetrics /\ [][NextMetrics]_vars

InitService == HIdle /\ WIdle /\ FIdle /\ SIdle /\ MIdle /\ XInit /\ EIdle /\ PIdle

NextService ==
    \/ \E c \in Callers :
          \/ XExplain(c) \/ XAcquire(c) \/ XLoad(c) \/ XStore(c) \/ XRelease(c)
          \/ XValidate(c) \/ XCompute(c)
    \/ XHealth

SpecService == InitService /\ [][NextService]_vars

InitWaterfall == HIdle /\ WIdle /\ FIdle /\ SIdle /\ MIdle /\ XIdle /\ EInit /\ PIdle

NextWaterfall == ECreateWaterfallData

SpecWaterfall == InitWaterfall /\ [][NextWaterfall]_vars

InitPipeline == HInit /\ WIdle /\ FIdle /\ SIdle /\ MIdle /\ XIdle /\ EIdle /\ PIdle

NextPipeline ==
    \/ HBuildSpec \/ HCreateMatrix \/ HValidate
    \/ HSaveMatrix \/ HSaveSpec \/ HSaveTags

SpecPipeline == InitPipeline /\ [][NextPipeline]_vars

-----------------------------------------------------------------------------
(* Properties of the summing matrix *)

Stores == SortedInts(ColumnValues(hdf, "store_nbr"))
Families == SortedStrs(ColumnValues(hdf, "family"))

RECURSIVE SumOver(_, _)
SumOver(f, set) ==
    IF set = {} THEN 0
    ELSE LET x == CHOOSE y \in set : TRUE IN f[x] + SumOver(f, set \ {x})

\* The bottom series (0-based index into bottom_ids) of the i-th store and of
\* the j-th family, found by their identifiers.
BottomOfStore(i) ==
    { k \in 0..(hierarchy_spec.n_bottom - 1) :
        \E f \in ColumnValues(hdf, "family") :
            hierarchy_spec.bottom_ids[k + 1] = UniqueId(Stores[i + 1], f) }
BottomOfFamily(j) ==
    { k \in 0..(hierarchy_spec.n_bottom - 1) :
        \E st \in ColumnValues(hdf, "store_nbr") :
            hierarchy_spec.bottom_ids[k + 1] = UniqueId(st, Families[j + 1]) }

MatrixBuilt ==
    hpc \in {"matrix", "validated", "raised", "aggregated", "reconciled", "verified"}

\* C1: for every hierarchy spec that build_hierarchy_spec produces,
\* validate_summing_matrix passes all four checks on the matrix that
\* create_summing_matrix builds from it: it returns True and never raises.
C1_ValidatorPassesOnBuiltMatrix ==
    /\ hpc # "raised"
    /\ hpc \in {"validated", "aggregated", "reconciled", "verified"} => validation = "True"

C1_Witness ==
    /\ hpc = "validated" /\ validation = "True"
    /\ hierarchy_spec.n_stores = 2 /\ hierarchy_spec.n_families = 2

\* C2: S @ b has the sum of all of b at entry 0, the sum of b over the bottom
\* series of store i at entry 1+i, the sum of b over the bottom series of
\* family j at entry 1+n_stores+j, and b itself in the last n_bottom entries.
C2_AggregatesMatchHierarchy ==
    hpc = "aggregated" =>
        LET ns == hierarchy_spec.n_stores
            nf == hierarchy_spec.n_families
            nb == hierarchy_spec.n_bottom
            \* the pairs (b, S @ b): one, or one per period
            pairs == IF bottom_forecasts.ndim = 1
                     THEN { <<bottom_forecasts.data, aggregated.data>> }
                     ELSE { <<bottom_forecasts.data[p], aggregated.data[p]>> :
                            p \in DOMAIN bottom_forecasts.data }
        IN  /\ aggregated.ndim = bottom_forecasts.ndim
            /\ aggregated.ndim = 2 =>
                   DOMAIN aggregated.data = DOMAIN bottom_forecasts.data
            /\ \A pair \in pairs :
                   LET b == pair[1]
                       y == pair[2]
                   IN  /\ DOMAIN y = 0..(ns + nf + nb)
                       /\ y[0] = SumOver(b, 0..(nb - 1))
                       /\ \A i \in 0..(ns - 1) : y[1 + i] = SumOver(b, BottomOfStore(i))
                       /\ \A j \in 0..(nf - 1) :
                              y[1 + ns + j] = SumOver(b, BottomOfFamily(j))
                       /\ \A k \in 0..(nb - 1) : y[1 + ns + nf + k] = b[k]

C2_Witness ==
    /\ hpc = "aggregated"
    /\ hierarchy_spec.n_stores = 2 /\ hierarchy_spec.n_families = 2
    /\ bottom_forecasts = Array1d([ k \in 0..3 |-> IF k \in {1, 2} THEN 1 ELSE 0 ])
    /\ aggregated.data[1] = 1 /\ aggregated.data[3] = 1 /\ aggregated.data[0] = 2

\* C3: the matrix has shape (1 + n_stores + n_families + n_bottom, n_bottom);
\* the row of store i has ones exactly at columns [i*n_families,
\* (i+1)*n_families) and the row of family j has ones exactly at the columns
\* i*n_families + j, one for every store i; all their other entries are zero.
C3_StoreAndFamilyRows ==
    MatrixBuilt =>
        LET ns == hierarchy_spec.n_stores
            nf == hierarchy_spec.n_families
            nb == hierarchy_spec.n_bottom
        IN  /\ DOMAIN S = 0..(ns + nf + nb)
            /\ \A r \in DOMAIN S : DOMAIN S[r] = 0..(nb - 1)
            /\ \A i \in 0..(ns - 1), c \in 0..(nb - 1) :
                   S[1 + i][c] = IF i * nf <= c /\ c < (i + 1) * nf THEN 1 ELSE 0
            /\ \A j \in 0..(nf - 1), c \in 0..(nb - 1) :
                   S[1 + ns + j][c] =
                       IF \E i \in 0..(ns - 1) : c = i * nf + j THEN 1 ELSE 0

C3_Witness ==
    /\ hpc = "matrix"
    /\ hierarchy_spec.n_stores = 2 /\ hierarchy_spec.n_families = 2
    /\ S[2][2] = 1 /\ S[2][1] = 0 /\ S[4][3] = 1 /\ S[4][2] = 0

-----------------------------------------------------------------------------
(* Properties of walk_forward_split and evaluate_model_cv *)

Dates(rows) == { wdf[rows[n]] : n \in 1..Len(rows) }
RowSet(rows) == { rows[n] : n \in 1..Len(rows) }

Appended == wpc # "idle" /\ fold_i > 0 /\ last.outcome = "appended"

\* C4, as stated: no fold has train_end >= valid_start, and the gap between
\* train_end and valid_start is at least gap_days.
C4_TrainEndBeforeValidStart ==
    Appended =>
        /\ last.bounds.train_end < last.bounds.valid_start
        /\ last.bounds.valid_start - last.bounds.train_end >= params.gap_days

\* C4, amended: no fold has train_end > valid_start; the gap between them is
\* exactly gap_days, so train_end = valid_start exactly when gap_days = 0.
C4_TrainEndNotAfterValidStart ==
    Appended =>
        /\ last.bounds.train_end <= last.bounds.valid_start
        /\ last.bounds.valid_start - last.bounds.train_end = params.gap_days
        /\ last.bounds.valid_start - last.bounds.train_end >= params.gap_days

C4_Witness ==
    /\ Appended
    /\ params.gap_days = 0
    /\ last.bounds.train_end = last.bounds.valid_start

\* C5: in every returned fold the latest train date is strictly earlier than
\* the earliest validation date, the two are at least gap_days apart, and no
\* row of the input is in both the train set and the validation set.
C5_NoLeakageBetweenTrainAndValid ==
    wpc # "idle" =>
        \A n \in 1..Len(splits) :
            LET fold == splits[n] IN
            /\ MaxOf(Dates(fold.train)) < MinOf(Dates(fold.valid))
            /\ MinOf(Dates(fold.valid)) - MaxOf(Dates(fold.train)) >= params.gap_days
            /\ RowSet(fold.train) \cap RowSet(fold.valid) = {}

C5_Witness ==
    /\ wpc = "returned"
    /\ Len(splits) = 2
    /\ params.gap_days = 0
    /\ MinOf(Dates(splits[1].valid)) - MaxOf(Dates(splits[1].train)) = 1

\* C6: a kept fold of index i uses valid_end = max_date - i*step_days,
\* valid_start = valid_end - valid_days, train_end = valid_start - gap_days,
\* train_start = train_end - train_days; its train set is exactly the rows
\* with train_start <= date < train_end and its validation set is exactly the
\* rows with valid_start <= date <= valid_end.
C6_FoldWindows ==
    Appended =>
        LET max_date == MaxOf({ wdf[k] : k \in 1..Len(wdf) })
            valid_end == max_date - last.i * params.step_days
            valid_start == valid_end - params.valid_days
            train_end == valid_start - params.gap_days
            train_start == train_end - params.train_days
            fold == splits[Len(splits)]
        IN  /\ last.bounds = [ valid_end |-> valid_end, valid_start |-> valid_start,
                               train_end |-> train_end, train_start |-> train_start ]
            /\ RowSet(fold.train) =
                   { k \in 1..Len(wdf) : train_start <= wdf[k] /\ wdf[k] < train_end }
            /\ RowSet(fold.valid) =
                   { k \in 1..Len(wdf) : valid_start <= wdf[k] /\ wdf[k] <= valid_end }
            /\ Len(fold.train) = Cardinality(RowSet(fold.train))
            /\ Len(fold.valid) = Cardinality(RowSet(fold.valid))

C6_Witness ==
    /\ Appended
    /\ last.i = 1 /\ params.step_days = 1 /\ params.valid_days = 1
    /\ Len(splits) = 2
    /\ splits[2].train # splits[1].train
    /\ splits[2].valid # splits[1].valid

\* C7: when train_start of an iteration precedes the earliest date, the
\* iteration adds no fold, nothing is raised and the loop goes on to the next
\* index, until all n_splits indices have been considered; the returned list
\* has at most n_splits folds, each a (train, valid) pair.
C7_SkipAndContinue ==
    /\ [](wpc # "idle" =>
            /\ Len(splits) <= params.n_splits
            /\ \A n \in 1..Len(splits) : DOMAIN splits[n] = {"train", "valid"}
            /\ wpc \in {"loop", "returned", "evaluating", "model_fn raised", "evaluated"}
            /\ (wpc # "loop" => fold_i = params.n_splits))
    /\ [][ (/\ wpc = "loop"
            /\ fold_i < params.n_splits
            /\ MaxOf({ wdf[k] : k \in 1..Len(wdf) }) - fold_i * params.step_days
                   - params.valid_days - params.gap_days - params.train_days
               < MinOf({ wdf[k] : k \in 1..Len(wdf) }))
           => (splits' = splits /\ fold_i' = fold_i + 1 /\ wpc' = "loop") ]_vars

C7_Witness ==
    /\ wpc = "returned"
    /\ params.n_splits = 2
    /\ Len(splits) = 1
    /\ skipped = 1

\* C8, as stated: the returned result tells the caller how many folds were
\* skipped for insufficient history: it carries that count, or the count
\* follows from the requested and the reported number of splits.
C8_SkippedCountReported ==
    wpc = "evaluated" =>
        \/ \E key \in DOMAIN cv_result \
                 {"fold_metrics", "aggregate", "mean_rmsle", "std_rmsle", "n_splits"} :
               cv_result[key] = skipped
        \/ params.n_splits - cv_result.n_splits = skipped

\* C8, amended: the result of evaluate_model_cv has exactly the keys
\* fold_metrics, aggregate, mean_rmsle, std_rmsle and n_splits, and n_splits
\* is the number of kept folds; the requested number minus it is the number
\* of folds skipped for insufficient history plus the number dropped because
\* their train or validation set was empty.
C8_OnlyKeptFoldsReported ==
    wpc = "evaluated" =>
        /\ DOMAIN cv_result =
               {"fold_metrics", "aggregate", "mean_rmsle", "std_rmsle", "n_splits"}
        /\ cv_result.n_splits = Len(splits)
        /\ Len(cv_result.fold_metrics) = Len(splits)
        /\ params.n_splits - cv_result.n_splits = skipped + dropped

C8_Witness ==
    /\ wpc = "evaluated"
    /\ params.n_splits = 2
    /\ skipped = 1
    /\ cv_result.n_splits = 1

-----------------------------------------------------------------------------
(* Properties of the lag and rolling features *)

\* 0-based position of row k within its group, the group's rows ordered by date.
Position(k) ==
    Cardinality({ j \in 1..Len(fdf) :
                    fdf[j].grp = fdf[k].grp /\ fdf[j].date < fdf[k].date })

\* The row of k's group at position t.
RowAt(k, t) ==
    CHOOSE j \in 1..Len(fdf) : fdf[j].grp = fdf[k].grp /\ Position(j) = t

\* C9: the rolling mean of window w at position t of a group is the mean of
\* the raw target values at positions t-w .. t-1 of the same group; it never
\* takes in the value at position t or later, and it is null when fewer than
\* w earlier observations exist in the group.
C9_RollingMeanOfEarlierValues ==
    "rolling" \in fpc =>
        \A w \in DOMAIN rolling_cols : \A k \in 1..Len(fdf) :
            LET t == Position(k)
                col == rolling_cols[w].mean[k]
            IN  IF t < w THEN col = Null
                ELSE /\ col # Null
                     /\ col[1].count > 0
                     /\ col[1].sum * w =
                            col[1].count *
                            SumOver([ u \in (t - w)..(t - 1) |-> fdf[RowAt(k, u)].sales ],
                                    (t - w)..(t - 1))

C9_Witness ==
    /\ "rolling" \in fpc
    /\ 2 \in DOMAIN rolling_cols
    /\ \E k \in 1..Len(fdf) :
          /\ Position(k) = 2
          /\ fdf[k].sales = 0
          /\ k > 1 /\ fdf[k - 1].grp # fdf[k].grp
          /\ rolling_cols[2].mean[k] = Some([ sum |-> 2, count |-> 2 ])

\* C10: the lag-k feature of the row at position t of a group is the target
\* value at position t-k of the same group, and null for the first k rows of
\* the group; it never comes from another group.
C10_LagWithinGroup ==
    "lag" \in fpc =>
        \A lag \in DOMAIN lag_cols : \A k \in 1..Len(fdf) :
            LET t == Position(k)
            IN  lag_cols[lag][k] =
                    IF t < lag THEN Null ELSE Some(fdf[RowAt(k, t - lag)].sales)

C10_Witness ==
    /\ "lag" \in fpc
    /\ 1 \in DOMAIN lag_cols
    /\ \E k \in 2..Len(fdf) :
          /\ fdf[k - 1].grp # fdf[k].grp
          /\ Position(k) = 0
          /\ fdf[k - 1].sales = 1
          /\ lag_cols[1][k] = Null
    /\ \E k \in 3..Len(fdf) :
          /\ fdf[k - 1].grp # fdf[k].grp
          /\ fdf[k - 2].grp = fdf[k].grp
          /\ fdf[k - 1].sales # fdf[k - 2].sales
          /\ lag_cols[1][k] = Some(fdf[k - 2].sales)

\* The rows of group g in the given table.
GroupSize(g) == Cardinality({ j \in 1..Len(fdf) : fdf[j].grp = g })

\* C11: the output of build_feature_matrix(df, forecast_horizon = h) has no
\* row whose sales_lag_h is null; the rows removed are exactly the first h
\* rows (by date) of every group and every other row is kept once, so a
\* group with n rows contributes max(n - h, 0) rows.
C11_FirstHorizonRowsDropped ==
    "built" \in fpc =>
        LET h == feature_matrix.forecast_horizon
            out == feature_matrix.result
        IN  /\ \A n \in 1..Len(out) : out[n].lag[h] # Null
            /\ { <<out[n].grp, out[n].date, out[n].sales>> : n \in 1..Len(out) } =
                   { <<fdf[k].grp, fdf[k].date, fdf[k].sales>> :
                       k \in { j \in 1..Len(fdf) : Position(j) >= h } }
            /\ \A g \in Groups :
                   Cardinality({ n \in 1..Len(out) : out[n].grp = g }) =
                       IF GroupSize(g) - h > 0 THEN GroupSize(g) - h ELSE 0

C11_Witness ==
    /\ "built" \in fpc
    /\ feature_matrix.forecast_horizon = 2
    /\ feature_matrix.df # fdf
    /\ GroupSize(1) = 3 /\ GroupSize(2) = 1
    /\ fdf[2].grp = 2
    /\ Len(feature_matrix.result) = 1
    /\ feature_matrix.result[1].date = 2

-----------------------------------------------------------------------------
(* Properties of verify_hierarchy_consistency *)

\* The value that the frame records for the node uid at timestamp ds in col.
Recorded(uid, ds, col) ==
    LET r == CHOOSE k \in 1..Len(forecasts.rows) :
                 forecasts.rows[k].unique_id = uid /\ forecasts.rows[k].ds = ds
    IN  forecasts.rows[r].values[col]

Timestamps == { forecasts.rows[k].ds : k \in 1..Len(forecasts.rows) }

\* Sum of the bottom-level values minus the Total-level value, at ds in col.
TotalGap(ds, col) ==
    SumSeq([ k \in 1..Len(hierarchy_spec.bottom_ids) |->
               Recorded(hierarchy_spec.bottom_ids[k], ds, col) ])
        - Recorded(<<"T", "o", "t", "a", "l">>, ds, col)

\* C12: a frame whose aggregate levels are all recomputed as S @ bottom
\* forecasts (Bottom-Up) records at the Total node the sum of its bottom
\* values, and verify_hierarchy_consistency returns True for it, whatever
\* the base forecasts and the tolerance were.
C12_BottomUpPassesConsistencyCheck ==
    /\ hpc \in {"reconciled", "verified"} =>
           \A ds \in Timestamps : TotalGap(ds, "model/BottomUp") = 0
    /\ (hpc = "verified" /\ consistency.cols = <<"model/BottomUp">>) =>
           consistency.result = TRUE

C12_Witness ==
    /\ hpc = "verified"
    /\ consistency.cols = <<"model/BottomUp">>
    /\ consistency.tol = 0
    /\ consistency.result = TRUE
    /\ hierarchy_spec.n_stores = 2
    /\ TotalGap(1, "model") # 0
    /\ Recorded(<<"T", "o", "t", "a", "l">>, 1, "model/BottomUp") = 2

\* C13: verify_hierarchy_consistency returns True only if, for every value
\* column and every timestamp of the frame, the sum of the bottom-level
\* values equals the value recorded at the Total node within tol; when some
\* column's Total value differs from that sum by more than tol at some
\* timestamp, it returns False.
C13_TotalNodeChecked ==
    hpc = "verified" =>
        consistency.result =
            (\A n \in 1..Len(consistency.cols) : \A ds \in Timestamps :
                 Abs(TotalGap(ds, consistency.cols[n])) <= consistency.tol)

-----------------------------------------------------------------------------
(* Properties of select_best_reconciliation_method *)

\* The rows considered by the call: those of the level, or all of them.
Considered ==
    { k \in 1..Len(evaluation_results) :
        selection.level = None \/ evaluation_results[k].level = selection.level }

ConsideredMethods == { evaluation_results[k].method : k \in Considered }

RowsOf(m) == { k \in Considered : evaluation_results[k].method = m }

\* The sum of the chosen metric over the considered rows of method m; its
\* mean is this sum divided by Cardinality(RowsOf(m)).
MetricSum(m) ==
    SumOver([ k \in RowsOf(m) |-> evaluation_results[k][selection.metric] ], RowsOf(m))

\* mean of a <= mean of b
ScoreLeq(a, b) ==
    MetricSum(a) * Cardinality(RowsOf(b)) <= MetricSum(b) * Cardinality(RowsOf(a))

\* The methods whose mean is lowest.
Lowest == { m \in ConsideredMethods : \A o \in ConsideredMethods : ScoreLeq(m, o) }

\* The first row of method m in the evaluation results.
FirstRow(m) ==
    CHOOSE k \in 1..Len(evaluation_results) :
        /\ evaluation_results[k].method = m
        /\ \A j \in 1..(k - 1) : evaluation_results[j].method # m

\* C14: select_best_reconciliation_method returns a method whose mean of the
\* chosen metric over the rows considered is lowest, the rows considered
\* being those of the given level, or all rows when level is None.
C14_LowestMeanSelected ==
    spc = "selected" =>
        /\ selection.best_method \in ConsideredMethods
        /\ \A o \in ConsideredMethods : ScoreLeq(selection.best_method, o)

\* TopDown is best at Total while MinTrace is best at Store and in the pool.
C14_Witness ==
    /\ spc = "selected"
    /\ selection.level = "Total" /\ selection.metric = "rmse"
    /\ selection.best_method = "TopDown/"
    /\ \E k, j \in 1..Len(evaluation_results) :
          /\ evaluation_results[k] =
                 [ method |-> "TopDown/", level |-> "Store", rmse |-> 2, mae |-> 1 ]
          /\ evaluation_results[j] =
                 [ method |-> "MinTrace/", level |-> "Store", rmse |-> 1, mae |-> 2 ]
    /\ \E k \in 1..Len(evaluation_results) :
          evaluation_results[k] =
              [ method |-> "MinTrace/", level |-> "Total", rmse |-> 2, mae |-> 1 ]

\* C15, as stated: when two or more methods tie for the lowest score, the
\* one encountered first in the evaluation results is returned.
C15_FirstSeenWinsTie ==
    (spc = "selected" /\ Cardinality(Lowest) >= 2) =>
        \A m \in Lowest : FirstRow(selection.best_method) <= FirstRow(m)

\* C15, amended: when two or more methods tie for the lowest score, one of
\* them is returned, and it is also a possible result for the same rows in
\* the opposite order: the encounter order does not decide the tie.
C15_TieNotDecidedByEncounterOrder ==
    (spc = "selected" /\ Cardinality(Lowest) >= 2) =>
        /\ selection.best_method \in Lowest
        /\ selection.best_method \in
               SelectBestReconciliationMethod(Reversed(evaluation_results),
                                              selection.metric, selection.level)

C15_Witness ==
    /\ spc = "selected"
    /\ Cardinality(Lowest) = 2 /\ Cardinality(ConsideredMethods) = 3
    /\ selection.best_method \in Lowest
    /\ \E m \in Lowest : FirstRow(m) < FirstRow(selection.best_method)

-----------------------------------------------------------------------------
(* Properties of build_hierarchy_spec *)

\* C16: a second run of build_hierarchy_spec on the same table, its rows in
\* the same or in any other order, returns the same bottom_ids list, the same
\* tag array for every level and the same counts as the first run.
C16_SpecIndependentOfRowOrder ==
    hpc = "rebuilt" =>
        /\ rebuilt.hierarchy_spec.bottom_ids = hierarchy_spec.bottom_ids
        /\ \A level \in {"Total", "Store", "Family"} :
               rebuilt.hierarchy_spec.tags[level] = hierarchy_spec.tags[level]
        /\ rebuilt.hierarchy_spec.n_stores = hierarchy_spec.n_stores
        /\ rebuilt.hierarchy_spec.n_families = hierarchy_spec.n_families
        /\ rebuilt.hierarchy_spec.n_bottom = hierarchy_spec.n_bottom

C16_Witness ==
    /\ hpc = "rebuilt"
    /\ rebuilt.df # hdf
    /\ Len(hdf) = 2
    /\ hdf[1].store_nbr > hdf[2].store_nbr
    /\ StrLess(hdf[2].family, hdf[1].family)
    /\ rebuilt.hierarchy_spec.tags = hierarchy_spec.tags

\* The store number and the family that the id at 0-based index k is made of.
StoreAt(k) == Stores[(k \div hierarchy_spec.n_families) + 1]
FamilyAt(k) == Families[(k % hierarchy_spec.n_families) + 1]

-----------------------------------------------------------------------------
(* Properties of validate_summing_matrix *)

GivenRowSum(r) == SumTo(given[r], hierarchy_spec.n_bottom)

\* The four checks, as the claim states them.
TotalRowWrong == GivenRowSum(0) # hierarchy_spec.n_bottom * Unit
StoreRowWrong ==
    \E i \in 0..(hierarchy_spec.n_stores - 1) :
        GivenRowSum(1 + i) # hierarchy_spec.n_families * Unit
FamilyRowWrong ==
    \E j \in 0..(hierarchy_spec.n_families - 1) :
        GivenRowSum(1 + hierarchy_spec.n_stores + j) # hierarchy_spec.n_stores * Unit
BottomBlockNotIdentity ==
    \E r, c \in 0..(hierarchy_spec.n_bottom - 1) :
        given[1 + hierarchy_spec.n_stores + hierarchy_spec.n_families + r][c]
            # (IF r = c THEN Unit ELSE 0)

\* C18: validate_summing_matrix raises for every matrix that violates one of
\* its four checks (Total row sum, Store row sums, Family row sums, trailing
\* block exactly equal to the identity in every entry), and returns True
\* only when none is violated.
C18_EveryViolationRaises ==
    hpc \in {"accepted", "rejected"} =>
        (hpc = "accepted"
            <=> ~ (TotalRowWrong \/ StoreRowWrong \/ FamilyRowWrong
                     \/ BottomBlockNotIdentity))

\* The trailing block differs from the identity by more than np.allclose
\* allows: more than 1e-8 where the identity is 0, more than 1e-8 + 1e-5
\* where it is 1.
BottomBlockNotClose ==
    \E r, c \in 0..(hierarchy_spec.n_bottom - 1) :
        LET entry == given[1 + hierarchy_spec.n_stores + hierarchy_spec.n_families + r][c]
        IN  IF r = c THEN entry < Unit - 1001 \/ entry > Unit + 1001
            ELSE entry < -1 \/ entry > 1

\* C18, amended: validate_summing_matrix raises for every matrix of the
\* expected shape whose Total row sum is not n_bottom, or some Store row sum
\* is not n_families, or some Family row sum is not n_stores, or whose
\* trailing block is not close to the identity in every entry; it returns
\* True only when none of these holds.
C18_ViolationsRaiseUpToTolerance ==
    hpc \in {"accepted", "rejected"} =>
        /\ hpc = "accepted"
               <=> ~ (TotalRowWrong \/ StoreRowWrong \/ FamilyRowWrong
                        \/ BottomBlockNotClose)
        /\ hpc = "accepted" <=> validation = "True"
        /\ TotalRowWrong => validation = "AssertionError: Total row"

C18_Witness ==
    /\ hpc = "accepted"
    /\ BottomBlockNotIdentity
    /\ hierarchy_spec.n_bottom = 2
    /\ given[4][1] = Atol

-----------------------------------------------------------------------------
(* Properties of mismatched sizes *)

\* C19: when the sizes disagree - the spec's n_bottom is not n_stores *
\* n_families, or the forecast vector's length is not the number of columns
\* of S - building the matrix, respectively aggregating, fails with an error
\* and returns no result.
C19_MismatchedSizesRaise ==
    /\ hpc \in {"matrix", "validated", "raised", "aggregated", "ValueError"} =>
           hierarchy_spec.n_bottom = hierarchy_spec.n_stores * hierarchy_spec.n_families
    /\ hpc = "aggregated" =>
           LET row == IF bottom_forecasts.ndim = 1 THEN bottom_forecasts.data
                      ELSE bottom_forecasts.data[1]
           IN  Cardinality(DOMAIN row) = hierarchy_spec.n_bottom

-----------------------------------------------------------------------------
(* Properties of the cross-validation result *)

\* Sum of one metric's per-fold sums, and of its per-fold counts.
FoldSum(metric) ==
    SumSeq([ k \in 1..Len(cv_result.fold_metrics) |->
                 cv_result.fold_metrics[k][metric].sum ])

FoldCount(metric) ==
    SumSeq([ k \in 1..Len(cv_result.fold_metrics) |->
                 cv_result.fold_metrics[k][metric].n ])

\* C20: evaluate_model_cv returns one metrics record per fold of
\* walk_forward_split, numbered 1..n in fold order and computed on that
\* fold's validation rows; mean_rmsle and std_rmsle are taken of exactly the
\* per-fold RMSLE values; the aggregate metrics are those of the
\* concatenation of all folds' actuals and predictions, so that every
\* aggregate sum is the sum of the per-fold sums and aggregate n_samples is
\* the sum of the per-fold n_samples; and n_splits is the number of folds
\* evaluated.
C20_CvResultStructure ==
    wpc = "evaluated" =>
        LET fold_metrics == cv_result.fold_metrics
            n == Len(fold_metrics)
        IN  /\ n = Len(splits)
            /\ \A k \in 1..n :
                  /\ fold_metrics[k].fold = k
                  /\ fold_metrics[k].n_samples = Len(splits[k].valid)
                  /\ fold_metrics[k].mae.sum =
                         SumSeq([ j \in 1..Len(splits[k].valid) |->
                                      Abs(cv_input.pred
                                            - cv_input.target[splits[k].valid[j]]) ])
            /\ cv_result.mean_rmsle.mean_of = [ k \in 1..n |-> fold_metrics[k].rmsle ]
            /\ cv_result.std_rmsle.std_of = [ k \in 1..n |-> fold_metrics[k].rmsle ]
            /\ \A metric \in {"rmsle", "rmse", "mae", "mape"} :
                  /\ cv_result.aggregate[metric].sum = FoldSum(metric)
                  /\ cv_result.aggregate[metric].n = FoldCount(metric)
            /\ cv_result.aggregate.n_samples =
                   SumSeq([ k \in 1..n |-> fold_metrics[k].n_samples ])
            /\ cv_result.n_splits = n

C20_Witness ==
    /\ wpc = "evaluated"
    /\ Len(splits) = 2
    /\ cv_result.fold_metrics[1].rmsle # cv_result.fold_metrics[2].rmsle
    /\ cv_result.fold_metrics[2].fold = 2
    /\ cv_result.aggregate.n_samples >= 2
    /\ cv_result.aggregate.rmsle.sum = 1

-----------------------------------------------------------------------------
(* Properties of the metrics *)

\* A vector with its negative entries replaced by 0.
NonNegative(y) == [ k \in 1..Len(y) |-> IF y[k] < 0 THEN 0 ELSE y[k] ]

\* The root mean squared logarithmic error of two vectors without negative
\* entries.
RmsleOfNonNegative(t, p) ==
    IF Len(t) = 0 THEN NaN
    ELSE IF t = p THEN Number(0)
    ELSE Float("sqrt_mean", 0,
               [ k \in 1..Len(t) |->
                   IF p[k] = t[k] THEN Number(0)
                   ELSE Float("squared", 0, <<p[k], t[k]>>) ])

\* The offsets c by which metric_y_pred differs from metric_y_true in every
\* entry.
ConstantOffsets ==
    { c \in -4..4 :
        \A k \in 1..Len(metric_y_true) : metric_y_pred[k] = metric_y_true[k] + c }

\* C21, as stated: rmsle is exactly 0 whenever the two vectors are identical,
\* rmsle is a number that equals the rmsle of the clipped vectors, and rmse
\* of a prediction that differs from the actuals by a constant offset c is
\* abs(c).
C21_MetricValues ==
    /\ "rmsle" \in mpc =>
          /\ metric_y_true = metric_y_pred => score.rmsle = Number(0)
          /\ score.rmsle = RmsleOfNonNegative(NonNegative(metric_y_true),
                                              NonNegative(metric_y_pred))
    /\ "rmse" \in mpc =>
          \A c \in ConstantOffsets : score.rmse = Number(Abs(c))

\* C21, amended: for vectors with at least one entry, rmsle is exactly 0
\* whenever the two vectors are identical, zeros and negative entries
\* included; rmsle raises nothing on negative entries and is the rmsle of
\* the vectors with their negative entries replaced by 0, never nan or
\* infinite; and rmse of a prediction that differs from the actuals by a
\* constant offset c is abs(c).  For empty vectors both metrics are nan.
C21_MetricValuesOfNonEmptyVectors ==
    /\ "rmsle" \in mpc =>
          /\ Len(metric_y_true) > 0 /\ metric_y_true = metric_y_pred
                 => score.rmsle = Number(0)
          /\ score.rmsle = RmsleOfNonNegative(NonNegative(metric_y_true),
                                              NonNegative(metric_y_pred))
          /\ Len(metric_y_true) > 0 => score.rmsle.kind \notin {"nan", "inf", "-inf"}
          /\ Len(metric_y_true) = 0 => score.rmsle = NaN
    /\ "rmse" \in mpc =>
          /\ Len(metric_y_true) > 0 =>
                 \A c \in ConstantOffsets : score.rmse = Number(Abs(c))
          /\ Len(metric_y_true) = 0 => score.rmse = NaN

C21_Witness ==
    /\ mpc = {"rmsle", "rmse"}
    /\ metric_y_true = <<-2, 0>>
    /\ metric_y_pred = <<-2, 0>>
    /\ score.rmsle = Number(0)
    /\ score.rmse = Number(0)

-----------------------------------------------------------------------------
(* Properties of the explanation service *)

\* Callers that have entered explain and not yet written the counter.
BeforeIncrement == { c \in Callers : xpc[c] \in {"acquire", "load", "store"} }

\* C22: requests_served starts at 0 and each explain call adds exactly one
\* to it, whatever the interleaving of the callers: the counter is the
\* number of calls that have passed their increment, at most one caller is
\* inside the increment, and a health() taken when no call is running
\* reports the number of calls made.
C22_NoLostUpdate ==
    /\ xpc # <<>> =>
          /\ started = 0 => requests_served = 0
          /\ requests_served = started - Cardinality(BeforeIncrement)
          /\ Cardinality({ c \in Callers : xpc[c] \in {"load", "store", "release"} }) <= 1
    /\ health # <<>> /\ observed[1].running = 0 =>
          health[1].requests_served = observed[1].started

C22_Witness ==
    /\ health # <<>>
    /\ observed[1].running = 0
    /\ observed[1].started = MaxExplainCalls
    /\ health[1].requests_served = MaxExplainCalls
    /\ outcomes.returned = MaxExplainCalls

\* Explain calls that have ended, in any way.
Ended == outcomes.returned + outcomes.ValueError + outcomes.raised

\* C30: explain increments requests_served before it validates its input:
\* a caller that is validating or computing has been counted, every call
\* that ended - returned, rejected with ValueError or failed later - has
\* been counted, and when no call is running requests_served is the number
\* of calls started, not the number that returned; no step of explain
\* decreases requests_served or assigns the model or the explainer, and the
\* step that raises leaves the counter as it is.
C30_CountsStartedCalls ==
    /\ [](xpc # <<>> =>
            /\ requests_served = started - Cardinality(BeforeIncrement)
            /\ requests_served >=
                   Ended + Cardinality({ c \in Callers : xpc[c] \in {"validate", "compute"} })
            /\ (\A c \in Callers : xpc[c] = "idle") =>
                   requests_served = started /\ requests_served = Ended)
    /\ [][/\ requests_served' >= requests_served
          /\ model' = model /\ explainer' = explainer
          /\ xpc # <<>> /\ Ended' # Ended => requests_served' = requests_served]_vars

C30_Witness ==
    /\ xpc # <<>>
    /\ \A c \in Callers : xpc[c] = "idle"
    /\ outcomes.ValueError = 1
    /\ outcomes.raised = 1
    /\ outcomes.returned = 0
    /\ requests_served = 2
    /\ model = "Booster" /\ explainer = "TreeExplainer"

-----------------------------------------------------------------------------
(* Properties of the waterfall data *)

\* The sum of the shap_value entries listed up to and including entry k.
ListedSum(k) == SumSeq([ j \in 1..k |-> waterfall.features[j].shap_value ])

\* The entries that are features, the entry 'Other' excluded.
ListedFeatures ==
    SelectSeq(waterfall.features, LAMBDA entry : entry.name[1] = "feature")

\* C23: the prediction returned by create_waterfall_data is base_value plus
\* the sum of all SHAP values of the sample, listed or not; each listed
\* entry's cumulative is base_value plus the sum of the shap_value entries
\* listed up to and including it; and at most max_display + 1 entries are
\* listed: the max_display features of largest absolute SHAP value, in
\* descending order of it, and possibly 'Other'.
C23_PredictionIsBasePlusAllShapValues ==
    epc = "returned" =>
        /\ waterfall.prediction = base_value + SumSeq(shap_values)
        /\ \A k \in 1..Len(waterfall.features) :
               waterfall.features[k].cumulative = base_value + ListedSum(k)
        /\ Len(waterfall.features) <= max_display + 1
        /\ Len(ListedFeatures) <= max_display
        /\ \A k \in 1..(Len(ListedFeatures) - 1) :
               Abs(ListedFeatures[k].shap_value) >= Abs(ListedFeatures[k + 1].shap_value)
        /\ \A k \in 1..Len(ListedFeatures) :
               \A idx \in 0..(Len(shap_values) - 1) :
                   (\A j \in 1..Len(ListedFeatures) : ListedFeatures[j].name[2] # idx)
                       => Abs(shap_values[idx + 1]) <= Abs(ListedFeatures[k].shap_value)

-----------------------------------------------------------------------------
(* Properties of the tags *)

\* The (store, family) pairs of the table from which a bottom id is built.
BuiltFrom(uid) ==
    { pair \in ColumnValues(hdf, "store_nbr") \X ColumnValues(hdf, "family") :
        uid = Str(pair[1]) \o <<"_">> \o pair[2] }

\* The rows of Stores and of Families that have a 1 in column k (0-based).
StoreRowsWithOne(k) ==
    { store_idx \in 0..(hierarchy_spec.n_stores - 1) : S[1 + store_idx][k] = 1 }

FamilyRowsWithOne(k) ==
    { family_idx \in 0..(hierarchy_spec.n_families - 1) :
        S[1 + hierarchy_spec.n_stores + family_idx][k] = 1 }

\* C24: for every bottom index k, bottom_ids[k] is built from exactly one
\* store and one family of the table; its Store tag is 'Store_' followed by
\* that store and its Family tag is 'Family_' followed by that family's full
\* name, also when the name holds '_'; and in the summing matrix exactly one
\* Store row and exactly one Family row have a 1 in column k, the rows of
\* that store and of that family.
C24_TagsNameTheParents ==
    MatrixBuilt =>
        \A k \in 0..(hierarchy_spec.n_bottom - 1) :
            /\ Cardinality(BuiltFrom(hierarchy_spec.bottom_ids[k + 1])) = 1
            /\ \A pair \in BuiltFrom(hierarchy_spec.bottom_ids[k + 1]) :
                  /\ hierarchy_spec.tags.Store[k + 1] =
                         <<"S", "t", "o", "r", "e", "_">> \o Str(pair[1])
                  /\ hierarchy_spec.tags.Family[k + 1] =
                         <<"F", "a", "m", "i", "l", "y", "_">> \o pair[2]
                  /\ StoreRowsWithOne(k) =
                         { store_idx \in 0..(hierarchy_spec.n_stores - 1) :
                             Stores[store_idx + 1] = pair[1] }
                  /\ FamilyRowsWithOne(k) =
                         { family_idx \in 0..(hierarchy_spec.n_families - 1) :
                             Families[family_idx + 1] = pair[2] }
            /\ Cardinality(StoreRowsWithOne(k)) = 1
            /\ Cardinality(FamilyRowsWithOne(k)) = 1

C24_Witness ==
    /\ MatrixBuilt
    /\ hierarchy_spec.n_stores = 2
    /\ hierarchy_spec.n_families = 2
    /\ hierarchy_spec.tags.Family[1] = <<"F", "a", "m", "i", "l", "y", "_", "A", "_", "B">>
    /\ hierarchy_spec.tags.Store[4] = <<"S", "t", "o", "r", "e", "_", "2">>
    /\ S[1][0] = 1 /\ S[2][0] = 0 /\ S[3][0] = 1 /\ S[4][0] = 0

-----------------------------------------------------------------------------
(* Properties of hierarchy_pipeline *)

\* The files written so far.
Written == { name \in DOMAIN artifacts : artifacts[name] # <<>> }

\* C25: hierarchy_pipeline writes summing_matrix.npy, hierarchy_spec.json and
\* the tags_*.npy files only after validate_summing_matrix has passed on the
\* matrix being saved: while the pipeline has not validated, or when
\* validation or an earlier step has raised, no file is written; a written
\* matrix is the validated one; and a file is written only by a step taken
\* after validation returned True.
C25_SavedOnlyAfterValidation ==
    /\ [](/\ hpc \in {"load", "spec", "matrix", "raised", "IndexError"} => Written = {}
          /\ Written # {} =>
                /\ validation = "True"
                /\ ValidateSummingMatrix(AsFloats(S), hierarchy_spec) = "True"
                /\ artifacts.summing_matrix = <<S>>)
    /\ [][artifacts' # artifacts =>
              validation = "True" /\ hpc \notin {"load", "spec", "matrix"}]_vars

C25_Witness ==
    /\ hpc = "returned"
    /\ Written = DOMAIN artifacts
    /\ validation = "True"
    /\ hierarchy_spec.n_bottom = 4
    /\ artifacts.summing_matrix = <<S>>
    /\ artifacts.tags_family = <<hierarchy_spec.tags.Family>>

-----------------------------------------------------------------------------
(* Properties of the calls of the model *)

\* C26: evaluate_model_cv calls model_fn once for each fold returned by
\* walk_forward_split, with that fold's train_df and valid_df and in the
\* returned order: the calls made so far are the first folds of splits; the
\* result is computed only when every fold has been given to the model; and
\* when model_fn raises, evaluate_model_cv ends there without a result.
C26_ModelCalledOncePerFold ==
    /\ [](/\ Len(model_calls) <= Len(splits)
          /\ \A k \in 1..Len(model_calls) : model_calls[k] = splits[k]
          /\ wpc = "evaluated" => model_calls = splits
          /\ wpc = "model_fn raised" => cv_result = None /\ cv_input = None)
    /\ [][/\ wpc' = "evaluated" => model_calls = splits /\ model_calls' = model_calls
          /\ wpc # "model_fn raised"
          /\ Len(model_calls') <= Len(model_calls) + 1]_vars

C26_Witness ==
    /\ wpc = "evaluated"
    /\ Len(splits) = 2
    /\ model_calls = splits
    /\ splits[1] # splits[2]
    /\ Len(cv_result.fold_metrics) = 2

-----------------------------------------------------------------------------
(* Properties of the order and the content of the folds *)

\* C27: the folds are returned in the order they are generated, the most
\* recent first: fold n of the list is the n-th iteration that kept a fold,
\* the iteration indices ascend, for step_days > 0 the validation end date
\* strictly decreases from each fold to the next (and the latest date in a
\* fold's validation set never increases), and when iteration 0 is kept the
\* first fold's validation window ends at the latest date of the data.
C27_MostRecentFoldFirst ==
    wpc # "idle" =>
        /\ Len(kept_folds) = Len(splits)
        /\ \A n \in 1..Len(splits) :
              /\ splits[n].valid = ValidRows(wdf, kept_folds[n].bounds)
              /\ splits[n].train = TrainRows(wdf, kept_folds[n].bounds)
        /\ \A n \in 1..(Len(splits) - 1) :
              /\ kept_folds[n].i < kept_folds[n + 1].i
              /\ params.step_days > 0 =>
                    /\ kept_folds[n + 1].bounds.valid_end < kept_folds[n].bounds.valid_end
                    /\ MaxOf(Dates(splits[n + 1].valid)) <= MaxOf(Dates(splits[n].valid))
        /\ Len(splits) > 0 /\ kept_folds[1].i = 0 =>
              /\ kept_folds[1].bounds.valid_end = MaxOf({ wdf[k] : k \in 1..Len(wdf) })
              /\ MaxOf(Dates(splits[1].valid)) = MaxOf({ wdf[k] : k \in 1..Len(wdf) })

C27_Witness ==
    /\ wpc = "returned"
    /\ Len(splits) = 2
    /\ params.step_days = 2
    /\ kept_folds[1].i = 0 /\ kept_folds[2].i = 1
    /\ kept_folds[2].bounds.valid_end = kept_folds[1].bounds.valid_end - 2
    /\ splits[1].valid # splits[2].valid

\* C29: every fold of the list has at least one train row and at least one
\* validation row; an iteration that has enough history but whose train
\* window or validation window holds no row of the input adds no fold.
C29_ReturnedFoldsNonEmpty ==
    /\ [](wpc # "idle" =>
            \A n \in 1..Len(splits) :
                Len(splits[n].train) > 0 /\ Len(splits[n].valid) > 0)
    /\ [][ (/\ wpc = "loop"
            /\ fold_i < params.n_splits
            /\ LET max_date == MaxOf({ wdf[k] : k \in 1..Len(wdf) })
                   valid_end == max_date - fold_i * params.step_days
                   valid_start == valid_end - params.valid_days
                   train_end == valid_start - params.gap_days
                   train_start == train_end - params.train_days
               IN  /\ train_start >= MinOf({ wdf[k] : k \in 1..Len(wdf) })
                   /\ \/ ~ \E k \in 1..Len(wdf) : train_start <= wdf[k] /\ wdf[k] < train_end
                      \/ ~ \E k \in 1..Len(wdf) : valid_start <= wdf[k] /\ wdf[k] <= valid_end)
           => (splits' = splits /\ fold_i' = fold_i + 1) ]_vars

C29_Witness ==
    /\ wpc = "returned"
    /\ params.n_splits = 2
    /\ dropped = 1
    /\ skipped = 0
    /\ Len(splits) = 1
    /\ last.outcome = "empty"

-----------------------------------------------------------------------------
(* Properties of the rows of the feature matrix *)

\* C28: in the output of build_feature_matrix(df, forecast_horizon = h), on
\* data without null sales, every lag feature (lags 1, 7, 14, 28 and h) and
\* every rolling mean and rolling std feature (windows 7, 14, 28 and h) is
\* non-null in every row.
C28_AllFeaturesAvailable ==
    "built" \in fpc =>
        LET h == feature_matrix.forecast_horizon
            out == feature_matrix.result
        IN  \A n \in 1..Len(out) :
                /\ \A lag \in {1, 7, 14, 28, h} : out[n].lag[lag] # Null
                /\ \A window \in {7, 14, 28, h} :
                      /\ out[n].rolling_mean[window] # Null
                      /\ out[n].rolling_std[window] # Null

====
